---- MODULE Spec2Model ----
(***************************************************************************)
(* BounceShot: the physics core of src/src/game/physics.ts (geometry       *)
(* resolver, collision responder, integrator, trajectory simulator).       *)
(*                                                                         *)
(* Numbers.  The code computes in IEEE doubles.  Here every real is a      *)
(* fixed-point integer with ONE units per 1.0, and every multiplication,   *)
(* division and square root rounds to the nearest unit, as each double     *)
(* operation rounds to the nearest double.  Dimensionless results of a     *)
(* division (unit normals, the speed-clamp ratio, the projection           *)
(* parameter) are kept with UNIT units per 1.0.  Statements that the code  *)
(* satisfies "within floating tolerance" carry the tolerance Eps.          *)
(***************************************************************************)
EXTENDS Integers, Sequences, FiniteSets, TLC

ONE == 100

UNIT == 100 * ONE

\* numeric tolerance of the arithmetic, in units (1/ONE)
Eps == 3

\* ---------------------------------------------------------------------------
\* number arithmetic
\* ---------------------------------------------------------------------------
Abs(a) == IF a < 0 THEN -a ELSE a

Sgn(a) == IF a < 0 THEN -1 ELSE IF a > 0 THEN 1 ELSE 0

Max(a, b) == IF a >= b THEN a ELSE b

Min(a, b) == IF a <= b THEN a ELSE b

\* a / b rounded to the nearest integer, ties away from zero (b > 0)
RDiv(a, b) == Sgn(a) * ((Abs(a) + b \div 2) \div b)

\* product and quotient of two fixed-point numbers
Mul(a, b) == RDiv(a * b, ONE)

Div(a, b) == RDiv(a * ONE, b)

\* Newton's iteration from an estimate x >= sqrt(n)
RECURSIVE ISqrtIter(_, _)
ISqrtIter(n, x) ==
  LET y == (x + n \div x) \div 2
  IN  IF y >= x THEN x ELSE ISqrtIter(n, y)

\* floor of the square root of a natural number below 2^31
ISqrt(n) ==
  IF n = 0 THEN 0
  ELSE ISqrtIter(n, IF n < 1024 THEN 32
                    ELSE IF n < 65536 THEN 256
                    ELSE IF n < 4194304 THEN 2048
                    ELSE IF n < 268435456 THEN 16384
                    ELSE 46341)

\* r = floor(sqrt(n)), or r + 1 when n is nearer to (r + 1)^2
RoundSqrt(n, r) == IF n - r * r > r THEN r + 1 ELSE r

\* square root of n rounded to the nearest integer
RSqrt(n) == RoundSqrt(n, ISqrt(n))

\* ---------------------------------------------------------------------------
\* Vec2 helpers (physics.ts 43-56)
\* ---------------------------------------------------------------------------
Vec(x, y) == [x |-> x, y |-> y]

add(a, b) == Vec(a.x + b.x, a.y + b.y)

sub(a, b) == Vec(a.x - b.x, a.y - b.y)

scale(a, s) == Vec(Mul(a.x, s), Mul(a.y, s))

\* scale, one factor being dimensionless (a unit vector or a ratio)
scaleU(a, s) == Vec(RDiv(a.x * s, UNIT), RDiv(a.y * s, UNIT))

dot(a, b) == Mul(a.x, b.x) + Mul(a.y, b.y)

\* dot product with a unit vector
dotU(a, n) == RDiv(a.x * n.x, UNIT) + RDiv(a.y * n.y, UNIT)

length(a) == RSqrt(a.x * a.x + a.y * a.y)

\* The result is a unit vector (UNIT units per 1.0).  A double keeps its
\* relative precision at every magnitude: the vector is first scaled up by
\* an integer so that the division sees the length to 1 part in 30000.
Precision(a) ==
  LET m == Max(Abs(a.x), Abs(a.y))
  IN  IF m = 0 THEN 1 ELSE Max(1, 32767 \div m)

ScaleUp(a, k) == Vec(k * a.x, k * a.y)

\* lines 51-52: a / len
DivideByLength(a, len) ==
  IF len = 0 THEN Vec(0, 0)
  ELSE Vec(RDiv(a.x * UNIT, len), RDiv(a.y * UNIT, len))

NormalizeScaled(a) == DivideByLength(a, length(a))

normalize(a) == NormalizeScaled(ScaleUp(a, Precision(a)))

clamp(value, min, max) == Max(min, Min(max, value))

\* ---------------------------------------------------------------------------
\* Math.sin, Math.cos, toRadians (physics.ts 41, 59-60, 72)
\* ---------------------------------------------------------------------------
PI == (314 * ONE) \div 100

\* sine of an angle in [0, PI] (Bhaskara's rational approximation)
SinHalf(a) ==
  LET p == a * (PI - a)
  IN  RDiv(16 * p * ONE, 5 * PI * PI - 4 * p)

MathSin(a) ==
  LET r == a % (2 * PI)
  IN  IF r <= PI THEN SinHalf(r) ELSE -SinHalf(r - PI)

MathCos(a) == MathSin(a + PI \div 2)

toRadians(degrees) == RDiv(degrees * PI, 180)

rotatePoint(point, radians) ==
  LET cos == MathCos(radians)
      sin == MathSin(radians)
  IN  Vec(Mul(point.x, cos) - Mul(point.y, sin),
          Mul(point.x, sin) + Mul(point.y, cos))

\* ---------------------------------------------------------------------------
\* Geometry resolver (physics.ts 67-166)
\* A bumper is [id, type, position, width, height, rotation (degrees),
\* orientation, hasMotion, motion: [axis, amplitude, speed, phase]].
\* ---------------------------------------------------------------------------
NoMotion == [axis |-> "x", amplitude |-> 0, speed |-> 0, phase |-> 0]

applyMotion(position, bumper, time) ==
  IF ~bumper.hasMotion THEN position
  ELSE LET m == bumper.motion
           offset == Mul(m.amplitude, MathSin(Mul(time, m.speed) + m.phase))
       IN  IF m.axis = "x" THEN Vec(position.x + offset, position.y)
                           ELSE Vec(position.x, position.y + offset)

rectVertices(bumper) ==
  LET halfW == RDiv(bumper.width, 2)
      halfH == RDiv(bumper.height, 2)
  IN  << Vec(-halfW, -halfH), Vec(halfW, -halfH),
         Vec(halfW, halfH), Vec(-halfW, halfH) >>

triangleVertices(bumper) ==
  LET halfW == RDiv(bumper.width, 2)
      halfH == RDiv(bumper.height, 2)
  IN  CASE bumper.orientation = "up" ->
             << Vec(0, -halfH), Vec(halfW, halfH), Vec(-halfW, halfH) >>
        [] bumper.orientation = "down" ->
             << Vec(0, halfH), Vec(-halfW, -halfH), Vec(halfW, -halfH) >>
        [] bumper.orientation = "left" ->
             << Vec(-halfW, 0), Vec(halfW, -halfH), Vec(halfW, halfH) >>
        [] OTHER ->
             << Vec(halfW, 0), Vec(-halfW, -halfH), Vec(-halfW, halfH) >>

buildEdges(vertices) ==
  [i \in 1..Len(vertices) |->
     LET from == vertices[i]
         to == vertices[(i % Len(vertices)) + 1]
         edgeDir == sub(to, from)
     IN  [from |-> from, to |-> to,
          normal |-> normalize(Vec(edgeDir.y, -edgeDir.x))]]

\* lines 138-141
BaseVerts(bumper) ==
  IF bumper.type = "rect" THEN rectVertices(bumper)
                          ELSE triangleVertices(bumper)

\* lines 143-145
Rotated(baseVerts, rotation) ==
  IF rotation # 0
    THEN [i \in 1..Len(baseVerts) |->
            rotatePoint(baseVerts[i], toRadians(rotation))]
    ELSE baseVerts

\* lines 149-160
Placed(bumper, rotated, center) ==
  [id |-> bumper.id, center |-> center, width |-> bumper.width,
   height |-> bumper.height, rotation |-> bumper.rotation,
   vertices |-> [i \in 1..Len(rotated) |-> add(rotated[i], center)],
   type |-> bumper.type]

\* mutant: the motion offset is added before the rotation
resolveBumperMotionFirst(bumper, time) ==
  LET center == applyMotion(bumper.position, bumper, time)
      offset == sub(center, bumper.position)
      moved == [i \in 1..Len(BaseVerts(bumper)) |->
                  add(BaseVerts(bumper)[i], offset)]
  IN  [Placed(bumper, Rotated(moved, bumper.rotation), bumper.position)
         EXCEPT !.center = center]

resolveBumper(bumper, time) ==
  Placed(bumper, Rotated(BaseVerts(bumper), bumper.rotation),
         applyMotion(bumper.position, bumper, time))

resolveBumpers(level, time) ==
  [i \in 1..Len(level.bumpers) |-> resolveBumper(level.bumpers[i], time)]

\* ---------------------------------------------------------------------------
\* Collision responder (physics.ts 168-302)
\*
\* The working state w of one stepBall call:
\*   position, velocity  the values of nextState.position / nextState.velocity
\*   posObj, velObj      which object each field refers to: "input" (the
\*                       caller's object) or "fresh" (allocated by this call)
\*   input               the current value of the caller's BallState
\*   acc                 the CollisionAccumulator [events, ids]
\*   log                 one entry per response applied, in order
\*   snaps               the values of nextState after lines 315, 317, 321
\*                       and 328, in order
\* ---------------------------------------------------------------------------
\* the floor 0.0001 of the squared segment length, at least one unit
SegLenSqFloor == Max(1, RDiv(ONE, 10000))

\* the projection parameter t is kept with UNIT units per 1.0
closestPointOnSegment(point, edge) ==
  LET seg == sub(edge.to, edge.from)
      segLenSq == Max(dot(seg, seg), SegLenSqFloor)
      t == clamp(RDiv(dot(sub(point, edge.from), seg) * UNIT, segLenSq), 0, UNIT)
  IN  add(edge.from, scaleU(seg, t))

\* mutant: the reflection subtracts three times the normal component
reflectVelocityOvershoot(velocity, normal) ==
  LET dotProduct == dotU(velocity, normal)
  IN  sub(velocity, scaleU(normal, 3 * dotProduct))

reflectVelocity(velocity, normal) ==
  LET dotProduct == dotU(velocity, normal)
  IN  sub(velocity, scaleU(normal, 2 * dotProduct))

\* mutant: the id set is not consulted
appendCollisionNoCheck(accumulator, event) ==
  [events |-> Append(accumulator.events, event),
   ids |-> accumulator.ids \cup {event.id}]

appendCollision(accumulator, event) ==
  IF event.id \in accumulator.ids THEN accumulator
  ELSE [events |-> Append(accumulator.events, event),
        ids |-> accumulator.ids \cup {event.id}]

\* state.position.x = v, state.position.y = v, state.velocity.x = v, ...:
\* a write to a field of the object the state refers to
SetPosition(w, v) ==
  [w EXCEPT !.position = v,
            !.input.position = IF w.posObj = "input" THEN v ELSE @]

SetVelocity(w, v) ==
  [w EXCEPT !.velocity = v,
            !.input.velocity = IF w.velObj = "input" THEN v ELSE @]

\* state.position = <new object>, state.velocity = <new object>
BindPosition(w, v) == [w EXCEPT !.position = v, !.posObj = "fresh"]

BindVelocity(w, v) == [w EXCEPT !.velocity = v, !.velObj = "fresh"]

WallEvent(id, normal, point) ==
  [id |-> id, kind |-> "wall", normal |-> normal, point |-> point]

\* one wall branch: clamp one coordinate, reflect one component, emit
WallResponse(w, settings, id) ==
  LET r == settings.ballRadius
      d == settings.damping
      p == w.position
      v == w.velocity
      newPos == CASE id = "wall-left" -> Vec(r, p.y)
                  [] id = "wall-right" -> Vec(settings.worldWidth - r, p.y)
                  [] id = "wall-top" -> Vec(p.x, r)
                  [] OTHER -> Vec(p.x, settings.worldHeight - r)
      newVel == CASE id = "wall-left" -> Vec(Mul(Abs(v.x), d), v.y)
                  [] id = "wall-right" -> Vec(Mul(-Abs(v.x), d), v.y)
                  [] id = "wall-top" -> Vec(v.x, Mul(Abs(v.y), d))
                  [] OTHER -> Vec(v.x, Mul(-Abs(v.y), d))
      normal == CASE id = "wall-left" -> Vec(UNIT, 0)
                  [] id = "wall-right" -> Vec(-UNIT, 0)
                  [] id = "wall-top" -> Vec(0, UNIT)
                  [] OTHER -> Vec(0, -UNIT)
      point == CASE id = "wall-left" -> Vec(0, p.y)
                 [] id = "wall-right" -> Vec(settings.worldWidth, p.y)
                 [] id = "wall-top" -> Vec(p.x, 0)
                 [] OTHER -> Vec(p.x, settings.worldHeight)
      w1 == SetVelocity(SetPosition(w, newPos), newVel)
  IN  [w1 EXCEPT
         !.acc = appendCollision(@, WallEvent(id, normal, point)),
         !.log = Append(@, [id |-> id, kind |-> "wall", normal |-> normal,
                            point |-> point, before |-> v, after |-> newVel,
                            position |-> newPos])]

\* mutant: the walls are tested against the center, not the ball's rim
resolveWallCollisionsNoRadius(w, settings) ==
  LET wx == IF w.position.x < 0 /\ w.velocity.x < 0
              THEN WallResponse(w, settings, "wall-left")
            ELSE IF w.position.x > settings.worldWidth /\ w.velocity.x > 0
              THEN WallResponse(w, settings, "wall-right")
            ELSE w
  IN  IF wx.position.y < 0 /\ wx.velocity.y < 0
        THEN WallResponse(wx, settings, "wall-top")
      ELSE IF wx.position.y > settings.worldHeight /\ wx.velocity.y > 0
        THEN WallResponse(wx, settings, "wall-bottom")
      ELSE wx

\* mutant: a wall responds whenever the ball is past it, whatever its velocity
resolveWallCollisionsAnyVelocity(w, settings) ==
  LET r == settings.ballRadius
      wx == IF w.position.x - r < 0
              THEN WallResponse(w, settings, "wall-left")
            ELSE IF w.position.x + r > settings.worldWidth
              THEN WallResponse(w, settings, "wall-right")
            ELSE w
  IN  IF wx.position.y - r < 0
        THEN WallResponse(wx, settings, "wall-top")
      ELSE IF wx.position.y + r > settings.worldHeight
        THEN WallResponse(wx, settings, "wall-bottom")
      ELSE wx

\* lines 204-222: the left wall, else the right wall
LeftRightWalls(w, settings) ==
  LET r == settings.ballRadius
  IN  IF w.position.x - r < 0 /\ w.velocity.x < 0
        THEN WallResponse(w, settings, "wall-left")
      ELSE IF w.position.x + r > settings.worldWidth /\ w.velocity.x > 0
        THEN WallResponse(w, settings, "wall-right")
      ELSE w

\* lines 224-242: the top wall, else the bottom wall
TopBottomWalls(w, settings) ==
  LET r == settings.ballRadius
  IN  IF w.position.y - r < 0 /\ w.velocity.y < 0
        THEN WallResponse(w, settings, "wall-top")
      ELSE IF w.position.y + r > settings.worldHeight /\ w.velocity.y > 0
        THEN WallResponse(w, settings, "wall-bottom")
      ELSE w

resolveWallCollisions(w, settings) ==
  TopBottomWalls(LeftRightWalls(w, settings), settings)

\* mutant: the velocity is damped but not reflected
BumperResponseNoReflect(w, settings, bumper, normal, dist, point) ==
  LET penetration == settings.ballRadius - dist
      newPos == add(w.position, scaleU(normal, penetration))
      newVel == scale(w.velocity, settings.damping)
      w1 == BindVelocity(BindPosition(w, newPos), newVel)
  IN  [w1 EXCEPT
         !.acc = appendCollision(@, [id |-> bumper.id, kind |-> "bumper",
                                     normal |-> normal, point |-> point]),
         !.log = Append(@, [id |-> bumper.id, kind |-> "bumper",
                            normal |-> normal, point |-> point,
                            before |-> w.velocity, after |-> newVel,
                            position |-> newPos])]

\* push-out, reflection, damping and event of one obstacle contact
BumperResponse(w, settings, bumper, normal, dist, point) ==
  LET penetration == settings.ballRadius - dist
      newPos == add(w.position, scaleU(normal, penetration))
      newVel == scale(reflectVelocity(w.velocity, normal), settings.damping)
      w1 == BindVelocity(BindPosition(w, newPos), newVel)
  IN  [w1 EXCEPT
         !.acc = appendCollision(@, [id |-> bumper.id, kind |-> "bumper",
                                     normal |-> normal, point |-> point]),
         !.log = Append(@, [id |-> bumper.id, kind |-> "bumper",
                            normal |-> normal, point |-> point,
                            before |-> w.velocity, after |-> newVel,
                            position |-> newPos])]

\* mutant: a vertex matches when the velocity does not point away from it
RECURSIVE CornerLoopTouching(_, _, _, _)
CornerLoopTouching(i, bumper, w, settings) ==
  IF i > Len(bumper.vertices) THEN w
  ELSE LET vertex == bumper.vertices[i]
           diff == sub(w.position, vertex)
           dist == length(diff)
       IN  IF dist < settings.ballRadius /\ dot(w.velocity, diff) <= 0
             THEN BumperResponse(w, settings, bumper, normalize(diff), dist, vertex)
           ELSE CornerLoopTouching(i + 1, bumper, w, settings)

\* lines 285-287 for one vertex, lines 288-298 when it matches, from
\* vertex i on
RECURSIVE CornerLoop(_, _, _, _)
CornerLoop(i, bumper, w, settings) ==
  IF i > Len(bumper.vertices) THEN w
  ELSE LET vertex == bumper.vertices[i]
           diff == sub(w.position, vertex)
           dist == length(diff)
       IN  IF dist < settings.ballRadius /\ dot(w.velocity, diff) < 0
             THEN BumperResponse(w, settings, bumper, normalize(diff), dist, vertex)
           ELSE CornerLoop(i + 1, bumper, w, settings)

\* lines 258-265: distance and direction from a point of an edge to the ball
ContactAt(nearest, diff) ==
  [point |-> nearest, dist |-> length(diff), normal |-> normalize(diff)]

\* lines 257-265 for every edge.  The ball does not move before the first
\* edge that matches, and the loop ends there.
EdgeContacts(position, edges) ==
  [i \in 1..Len(edges) |->
     ContactAt(closestPointOnSegment(position, edges[i]),
               sub(position, closestPointOnSegment(position, edges[i])))]

\* mutant: the edges are tested from the last to the first
RECURSIVE EdgeLoopLast(_, _, _, _, _)
EdgeLoopLast(contacts, i, bumper, w, settings) ==
  IF i > Len(contacts) THEN CornerLoop(1, bumper, w, settings)
  ELSE IF contacts[Len(contacts) + 1 - i].dist = 0
    THEN EdgeLoopLast(contacts, i + 1, bumper, w, settings)
  ELSE IF /\ contacts[Len(contacts) + 1 - i].dist < settings.ballRadius
          /\ dotU(w.velocity, contacts[Len(contacts) + 1 - i].normal) < 0
    THEN BumperResponse(w, settings, bumper,
                        contacts[Len(contacts) + 1 - i].normal,
                        contacts[Len(contacts) + 1 - i].dist,
                        contacts[Len(contacts) + 1 - i].point)
  ELSE EdgeLoopLast(contacts, i + 1, bumper, w, settings)

\* The edge loop from edge i on (lines 256-280): the first edge that matches
\* responds and sets collided; when no edge matched, collided is still false
\* and the corner check runs (lines 282-301).
RECURSIVE EdgeLoop(_, _, _, _, _)
EdgeLoop(contacts, i, bumper, w, settings) ==
  IF i > Len(contacts) THEN CornerLoop(1, bumper, w, settings)
  ELSE IF contacts[i].dist = 0
    THEN EdgeLoop(contacts, i + 1, bumper, w, settings)
  ELSE IF /\ contacts[i].dist < settings.ballRadius
          /\ dotU(w.velocity, contacts[i].normal) < 0
    THEN BumperResponse(w, settings, bumper, contacts[i].normal,
                        contacts[i].dist, contacts[i].point)
  ELSE EdgeLoop(contacts, i + 1, bumper, w, settings)

resolveBumperCollision(bumper, w, settings) ==
  EdgeLoop(EdgeContacts(w.position, buildEdges(bumper.vertices)),
           1, bumper, w, settings)

RECURSIVE BumperLoop(_, _, _, _)
BumperLoop(bumpers, i, w, settings) ==
  IF i > Len(bumpers) THEN w
  ELSE BumperLoop(bumpers, i + 1,
                  resolveBumperCollision(bumpers[i], w, settings), settings)

\* ---------------------------------------------------------------------------
\* Integrator (physics.ts 304-338)
\* ---------------------------------------------------------------------------
\* mutant: nextState shares the caller's position and velocity objects
NewNextStateShared(state, dt) ==
  [position |-> add(state.position, scale(state.velocity, dt)),
   velocity |-> state.velocity,
   posObj |-> "input", velObj |-> "input",
   input |-> state,
   acc |-> [events |-> << >>, ids |-> {}],
   log |-> << >>, snaps |-> << >>]

\* lines 312-315: nextState, a new object whose position comes from add()
\* and whose velocity is a spread copy
NewNextState(state, dt) ==
  [position |-> add(state.position, scale(state.velocity, dt)),
   velocity |-> state.velocity,
   posObj |-> "fresh", velObj |-> "fresh",
   input |-> state,
   acc |-> [events |-> << >>, ids |-> {}],
   log |-> << >>, snaps |-> << >>]

\* the value of nextState at this point of stepBall, kept for the record
Snapshot(w) ==
  [w EXCEPT !.snaps = Append(@, [position |-> w.position,
                                 velocity |-> w.velocity])]

\* line 317: the friction multiplier
FrictionFactor(friction, dt) == ONE - Mul(friction, dt)

\* line 317
ApplyFriction(w, settings, dt) ==
  BindVelocity(w, scale(w.velocity, FrictionFactor(settings.friction, dt)))

\* mutant: no speed clamp
ClampSpeedMissing(velocity, maxSpeed) == velocity

\* lines 318-321: the speed clamp
ClampSpeed(velocity, maxSpeed) ==
  LET speed == length(velocity)
  IN  IF speed > maxSpeed
        THEN scaleU(velocity, RDiv(maxSpeed * UNIT, speed))
        ELSE velocity

\* lines 318-321 on nextState
ApplyClamp(w, settings) ==
  BindVelocity(w, ClampSpeed(w.velocity, settings.maxSpeed))

\* mutant: the position is predicted with the slowed and clamped velocity
IntegrateVelocityFirst(state, dt, settings) ==
  LET moved == ApplyClamp(ApplyFriction(NewNextState(state, dt), settings, dt),
                          settings)
      start == [NewNextState(state, dt) EXCEPT
                  !.position = add(state.position, scale(moved.velocity, dt))]
  IN  Snapshot(ApplyClamp(
        Snapshot(ApplyFriction(Snapshot(start), settings, dt)), settings))

\* lines 312-321: nextState before the collisions
Integrate(state, dt, settings) ==
  Snapshot(ApplyClamp(
    Snapshot(ApplyFriction(Snapshot(NewNextState(state, dt)), settings, dt)),
    settings))

\* mutant: the bumpers are resolved before the walls
CollideBumpersFirst(w, bumpers, settings) ==
  Snapshot(resolveWallCollisions(BumperLoop(bumpers, 1, w, settings), settings))

\* lines 323-332: walls, then every bumper in order
Collide(w, bumpers, settings) ==
  BumperLoop(bumpers, 1, Snapshot(resolveWallCollisions(w, settings)), settings)

\* lines 334-337.  The result of stepBall is {state, collisions}; the other
\* fields record the call: its arguments, the intermediate values of
\* nextState and the caller's object after the call.
StepResult(state, bumpers, dt, w) ==
  [state |-> [position |-> w.position, velocity |-> w.velocity],
   collisions |-> w.acc.events,
   given |-> state,
   input |-> w.input,
   bumpers |-> bumpers,
   dt |-> dt,
   predicted |-> w.snaps[1].position,
   slowed |-> w.snaps[2].velocity,
   clamped |-> w.snaps[3].velocity,
   walled |-> w.snaps[4],
   log |-> w.log]

stepBall(state, bumpers, dt, settings) ==
  StepResult(state, bumpers, dt,
             Collide(Integrate(state, dt, settings), bumpers, settings))

\* ---------------------------------------------------------------------------
\* Inputs: step settings, levels, ball states, time steps
\* ---------------------------------------------------------------------------
\* the most stepBall calls in a row, and the largest step budget of a preview
MaxTicks == 3

MaxSteps == 3

MaxCollisions == 2

Settings(damping, friction, maxSpeed) ==
  [ballRadius |-> 4 * ONE, worldWidth |-> 40 * ONE, worldHeight |-> 40 * ONE,
   damping |-> damping, friction |-> friction, maxSpeed |-> maxSpeed]

\* damping 0.88 and friction 0.18 are the game's (getPhysicsSettings);
\* friction 2 makes friction * dt reach and exceed 1
SettingsSet ==
  { Settings((88 * ONE) \div 100, (18 * ONE) \div 100, 20 * ONE),
    Settings(ONE, 0, 20 * ONE),
    Settings(ONE \div 2, 2 * ONE, 12 * ONE) }

DtSet == { ONE \div 2, ONE }

\* the preview's time step
PreviewDtSet == { ONE \div 2 }

Rect(id, x, y, w, h, rotation) ==
  [id |-> id, type |-> "rect", position |-> Vec(x * ONE, y * ONE),
   width |-> w * ONE, height |-> h * ONE, rotation |-> rotation,
   orientation |-> "none", hasMotion |-> FALSE, motion |-> NoMotion]

Tri(id, x, y, w, h, orientation, rotation) ==
  [id |-> id, type |-> "triangle", position |-> Vec(x * ONE, y * ONE),
   width |-> w * ONE, height |-> h * ONE, rotation |-> rotation,
   orientation |-> orientation, hasMotion |-> FALSE, motion |-> NoMotion]

Moving(bumper, axis, amplitude, speed, phase) ==
  [bumper EXCEPT !.hasMotion = TRUE,
                 !.motion = [axis |-> axis, amplitude |-> amplitude * ONE,
                             speed |-> speed, phase |-> phase]]

\* an empty arena; one static rectangle; two rectangles that form an inner
\* corner and carry the same id; a rectangle oscillating along x (amplitude
\* 6, 1 rad/s, phase pi) and a triangle rotated by 30 degrees
LevelSet ==
  { [bumpers |-> << >>],
    [bumpers |-> << Rect("b1", 24, 20, 8, 8, 0) >>],
    [bumpers |-> << Rect("dup", 10, 20, 8, 16, 0),
                    Rect("dup", 22, 32, 16, 8, 0) >>],
    [bumpers |-> << Moving(Rect("m1", 20, 20, 8, 8, 0), "x", 6, ONE, PI),
                    Tri("t1", 30, 30, 10, 10, "up", 30) >>] }

PositionSet ==
  { Vec(0, 0), Vec(4 * ONE, 20 * ONE), Vec(20 * ONE, 20 * ONE),
    Vec(36 * ONE, 36 * ONE), Vec(22 * ONE + ONE \div 2, 19 * ONE + ONE \div 2),
    Vec(12 * ONE, 20 * ONE), Vec(12 * ONE, 17 * ONE),
    Vec(10 * ONE, 16 * ONE) }

SpeedSet == { -30 * ONE, 0, 10 * ONE }

VelocitySet == { Vec(x, y) : x \in SpeedSet, y \in SpeedSet }

\* launch velocities of a preview
LaunchSet == { Vec(10 * ONE, 10 * ONE), Vec(-30 * ONE, 0), Vec(10 * ONE, -30 * ONE) }

\* ---------------------------------------------------------------------------
\* State
\* ---------------------------------------------------------------------------
VARIABLES
  settings,   \* the StepSettings of the session
  level,      \* the LevelConfig
  ball,       \* the live BallState
  time,       \* the simulation time of the live ball
  ticks,      \* stepBall calls made on the live ball
  calls,      \* << >> or << the record of the latest stepBall call >>
  sim,        \* the activation of simulateTrajectory
  geom,       \* the calls of resolveBumpers made so far, in order
  loop,       \* useAnimationLoop: its refs, effect instances and frames
  game,       \* the refs and React state of the BounceGame component
  store,      \* the GameState of the progress store
  shop        \* the store provider: queued state updates, the latest return

\* the state of the physics core's caller, and the rest
physVars == << settings, level, ball, time, ticks, calls, sim >>

restVars == << geom, loop, game, store, shop >>

vars == << physVars, restVars >>

\* no useAnimationLoop, no BounceGame and no store are mounted
Unmounted == << >>

SimIdle ==
  [pc |-> "idle", start |-> << >>, aliased |-> FALSE,
   state |-> << >>, time |-> 0, dt |-> 0, steps |-> 0, maxCollisions |-> 0,
   i |-> 0, collisions |-> 0, points |-> << >>, results |-> << >>]

\* the time the frames before the first tick have accumulated (part_000 544)
StartTimeSet == { 0, ONE }

\* the time has an effect on the geometry of moving obstacles only
StartTimes(lv) ==
  IF \E b \in 1..Len(lv.bumpers) : lv.bumpers[b].hasMotion
    THEN StartTimeSet ELSE { 0 }

Init ==
  /\ settings \in SettingsSet
  /\ level \in LevelSet
  /\ ball \in [position : PositionSet, velocity : VelocitySet]
  /\ time \in StartTimes(level)
  /\ ticks = 0
  /\ calls = << >>
  /\ sim = SimIdle
  /\ geom = << >>
  /\ loop = Unmounted
  /\ game = Unmounted
  /\ store = Unmounted
  /\ shop = Unmounted

\* ---------------------------------------------------------------------------
\* One physics tick on the live ball: geometry at the tick's time, stepBall,
\* the result becomes the live state (part_000 558-569)
\* ---------------------------------------------------------------------------
Step(dt) ==
  /\ sim.pc = "idle"
  /\ ticks < MaxTicks
  /\ \E r \in { stepBall(ball, resolveBumpers(level, time + dt), dt, settings) } :
       /\ ball' = r.state
       /\ calls' = << r >>
  /\ time' = time + dt
  /\ ticks' = ticks + 1
  /\ UNCHANGED << settings, level, sim, restVars >>

\* ---------------------------------------------------------------------------
\* simulateTrajectory (physics.ts 340-372), one action per loop iteration
\* ---------------------------------------------------------------------------
\* lines 350-353: the local state is a copy of start
CopyStart(start) == [state |-> start, aliased |-> FALSE]

\* The preview while aiming (part_000 418-431): the ball is at rest, start
\* is {position: the live ball's position object, velocity: the launch
\* velocity}; then lines 349-355.
SimCall(velocity, dt, steps, maxCollisions) ==
  /\ sim.pc = "idle"
  /\ ticks = 0
  /\ calls = << >>
  /\ ball.velocity = Vec(0, 0)
  /\ LET start == [position |-> ball.position, velocity |-> velocity]
         c == CopyStart(start)
     IN  sim' = [pc |-> "loop", start |-> start,
                 aliased |-> c.aliased, state |-> c.state, time |-> time,
                 dt |-> dt, steps |-> steps, maxCollisions |-> maxCollisions,
                 i |-> 0, collisions |-> 0, points |-> << >>,
                 results |-> << >>]
  /\ UNCHANGED << settings, level, ball, time, ticks, calls, restVars >>

\* mutant: a cap of 0 means no cap
CapReachedUnlessZero(collisions, maxCollisions) ==
  maxCollisions > 0 /\ collisions >= maxCollisions

\* mutant: the cap must be exceeded
CapReachedStrict(collisions, maxCollisions) == collisions > maxCollisions

\* lines 363-368: accumulate, then compare with the cap
CapReached(collisions, maxCollisions) == collisions >= maxCollisions

\* mutant: the time stands still in a step with a collision
NextSimTimeUnlessCollision(t, dt, events) == IF events > 0 THEN t ELSE t + dt

\* line 362: time += dt
NextSimTime(t, dt, events) == t + dt

\* lines 358-368: one iteration of the loop body
SimStep ==
  /\ sim.pc = "loop"
  /\ sim.i < sim.steps
  /\ \E r \in { stepBall(sim.state, resolveBumpers(level, sim.time),
                          sim.dt, settings) } :
     LET collisions == sim.collisions + Len(r.collisions)
     IN  /\ sim' = [sim EXCEPT
                !.state = r.state,
                !.aliased = FALSE,
                !.points = Append(@, r.state.position),
                !.time = NextSimTime(@, sim.dt, Len(r.collisions)),
                !.collisions = collisions,
                !.results = Append(@, [time |-> sim.time,
                                       bumpers |-> r.bumpers,
                                       state |-> r.state,
                                       events |-> Len(r.collisions),
                                       total |-> collisions]),
                !.i = IF CapReached(collisions, sim.maxCollisions)
                        THEN @ ELSE @ + 1,
                !.pc = IF CapReached(collisions, sim.maxCollisions)
                         THEN "done" ELSE "loop"]
         /\ calls' = << r >>
         \* start.position is the live ball's position object: a write to
         \* the local state reaches it while the local state is still start
         /\ ball' = IF sim.aliased
                      THEN [ball EXCEPT !.position = r.input.position]
                      ELSE ball
  /\ UNCHANGED << settings, level, time, ticks, restVars >>

\* line 357: the loop condition fails
SimExit ==
  /\ sim.pc = "loop"
  /\ ~(sim.i < sim.steps)
  /\ sim' = [sim EXCEPT !.pc = "done"]
  /\ UNCHANGED << settings, level, ball, time, ticks, calls, restVars >>

\* line 371: points are returned; the activation ends
SimReturn ==
  /\ sim.pc = "done"
  /\ sim' = SimIdle
  /\ calls' = << >>
  /\ UNCHANGED << settings, level, ball, time, ticks, restVars >>

Next ==
  \/ \E dt \in DtSet : Step(dt)
  \/ \E velocity \in LaunchSet, dt \in PreviewDtSet, steps \in 0..MaxSteps,
        maxCollisions \in 0..MaxCollisions :
       SimCall(velocity, dt, steps, maxCollisions)
  \/ SimStep
  \/ SimExit
  \/ SimReturn

Spec == Init /\ [][Next]_vars

\* ---------------------------------------------------------------------------
\* Properties of one stepBall call (the record in calls)
\* ---------------------------------------------------------------------------
InRange(position, s) ==
  /\ s.ballRadius <= position.x
  /\ position.x <= s.worldWidth - s.ballRadius
  /\ s.ballRadius <= position.y
  /\ position.y <= s.worldHeight - s.ballRadius

\* speed along a unit normal
NormalSpeed(velocity, normal) == Abs(dotU(velocity, normal))

HasEvent(c, id) == \E i \in 1..Len(c.collisions) : c.collisions[i].id = id

Responded(c, id) == \E i \in 1..Len(c.log) : c.log[i].id = id

WallIds == { "wall-left", "wall-right", "wall-top", "wall-bottom" }

\* C1: after any stepBall call the speed is at most maxSpeed (within the
\* numeric tolerance), whatever the input speed and whatever collisions
\* the step resolved, given 0 < damping <= 1.
SpeedCap ==
  \A i \in 1..Len(calls) :
    (0 < settings.damping /\ settings.damping <= ONE)
      => length(calls[i].state.velocity) <= settings.maxSpeed + Eps

\* an over-speed input whose step resolved a wall and an obstacle collision
SpeedCapWitness ==
  \E i \in 1..Len(calls) :
    /\ length(calls[i].given.velocity) > settings.maxSpeed
    /\ \E j \in 1..Len(calls[i].log) : calls[i].log[j].kind = "wall"
    /\ \E j \in 1..Len(calls[i].log) : calls[i].log[j].kind = "bumper"
    /\ length(calls[i].state.velocity) <= settings.maxSpeed

\* C2 as stated: in an arena without obstacles, any ball state with nonzero
\* velocity is within the wall ranges after each step.
WallContainmentAnyState ==
  \A i \in 1..Len(calls) :
    (calls[i].bumpers = << >> /\ calls[i].given.velocity # Vec(0, 0))
      => InRange(calls[i].state.position, settings)

\* C2 amended: in an arena without obstacles, a ball with nonzero velocity
\* whose center is within the wall ranges before a step with dt > 0,
\* friction * dt < 1 and maxSpeed > 0 is within them after the step (so it
\* stays within them for any number of consecutive such steps).
WallContainment ==
  \A i \in 1..Len(calls) :
    ( /\ calls[i].bumpers = << >>
      /\ calls[i].given.velocity # Vec(0, 0)
      /\ InRange(calls[i].given.position, settings)
      /\ calls[i].dt > 0
      /\ Mul(settings.friction, calls[i].dt) < ONE
      /\ settings.maxSpeed > 0 )
      => InRange(calls[i].state.position, settings)

\* the third consecutive tick of a ball that started in range, bounced off
\* a wall in this tick and is in range
WallContainmentWitness ==
  /\ ticks = MaxTicks
  /\ level.bumpers = << >>
  /\ Mul(settings.friction, ONE) < ONE
  /\ \E i \in 1..Len(calls) :
       /\ InRange(calls[i].given.position, settings)
       /\ calls[i].given.velocity # Vec(0, 0)
       /\ \E j \in 1..Len(calls[i].log) : calls[i].log[j].kind = "wall"
       /\ ~InRange(calls[i].predicted, settings)
       /\ InRange(calls[i].state.position, settings)

\* distance from the ball center to the nearest point of an edge
EdgeDistance(position, edge) ==
  length(sub(position, closestPointOnSegment(position, edge)))

\* C3: in the state returned by every stepBall call the ball circle is
\* within the arena walls and the center is at least ballRadius (less the
\* numeric tolerance) away from every edge of every obstacle of that step.
NoPenetration ==
  \A i \in 1..Len(calls) :
    /\ InRange(calls[i].state.position, settings)
    /\ \A b \in 1..Len(calls[i].bumpers) :
         LET edges == buildEdges(calls[i].bumpers[b].vertices)
         IN  \A e \in 1..Len(edges) :
               EdgeDistance(calls[i].state.position, edges[e])
                 >= settings.ballRadius - Eps

\* C4: the collision list of one stepBall call holds at most one event per
\* id, and the event kept for an id is the first contact detected for it.
EventDedup ==
  \A i \in 1..Len(calls) :
    LET c == calls[i]
    IN  /\ \A a, b \in 1..Len(c.collisions) :
             c.collisions[a].id = c.collisions[b].id => a = b
        /\ \A a \in 1..Len(c.collisions) :
             \E j \in 1..Len(c.log) :
               /\ c.log[j].id = c.collisions[a].id
               /\ \A k \in 1..(j - 1) : c.log[k].id # c.log[j].id
               /\ c.log[j].normal = c.collisions[a].normal
               /\ c.log[j].point = c.collisions[a].point
               /\ c.log[j].kind = c.collisions[a].kind
        /\ \A j \in 1..Len(c.log) : HasEvent(c, c.log[j].id)

\* two contacts with the same id in one step, of which one event is kept
EventDedupWitness ==
  \E i \in 1..Len(calls) :
    /\ \E j, k \in 1..Len(calls[i].log) :
         /\ j < k
         /\ calls[i].log[j].id = calls[i].log[k].id
         /\ calls[i].log[j].point # calls[i].log[k].point
    /\ Len(calls[i].collisions) < Len(calls[i].log)

\* C5: for every wall or obstacle response applied in a step, the speed
\* along the collision normal after the response is at most damping times
\* the speed along it before (within the numeric tolerance).
EnergyNonIncrease ==
  \A i \in 1..Len(calls) :
    \A j \in 1..Len(calls[i].log) :
      LET e == calls[i].log[j]
      IN  NormalSpeed(e.after, e.normal)
            <= Mul(settings.damping, NormalSpeed(e.before, e.normal)) + Eps

\* a step with a wall response and an obstacle response on an oblique normal
EnergyNonIncreaseWitness ==
  \E i \in 1..Len(calls) :
    /\ \E j \in 1..Len(calls[i].log) :
         /\ calls[i].log[j].kind = "wall"
         /\ NormalSpeed(calls[i].log[j].before, calls[i].log[j].normal) > ONE
    /\ \E j \in 1..Len(calls[i].log) :
         /\ calls[i].log[j].kind = "bumper"
         /\ calls[i].log[j].normal.x # 0
         /\ calls[i].log[j].normal.y # 0
         /\ NormalSpeed(calls[i].log[j].before, calls[i].log[j].normal) > ONE

\* C9: in stepBall a wall responds exactly when the predicted center is past
\* it (allowing for the radius) and the velocity component after friction
\* points into it; the response puts that coordinate on the boundary, makes
\* that velocity component |component| * damping pointing away from the
\* wall, and emits one event for the wall.  Left and right exclude each
\* other, as do top and bottom; an x wall and a y wall may both respond.
WallFires(c, id) ==
  LET r == settings.ballRadius
  IN  CASE id = "wall-left" -> c.predicted.x - r < 0 /\ c.slowed.x < 0
        [] id = "wall-right" ->
             c.predicted.x + r > settings.worldWidth /\ c.slowed.x > 0
        [] id = "wall-top" -> c.predicted.y - r < 0 /\ c.slowed.y < 0
        [] OTHER -> c.predicted.y + r > settings.worldHeight /\ c.slowed.y > 0

WallEvents(c, id) ==
  Cardinality({ i \in 1..Len(c.collisions) : c.collisions[i].id = id })

WallResponseRule ==
  \A i \in 1..Len(calls) :
    LET c == calls[i]
        r == settings.ballRadius
        d == settings.damping
    IN  /\ \A id \in WallIds : Responded(c, id) <=> WallFires(c, id)
        /\ \A id \in WallIds :
             WallEvents(c, id) = IF WallFires(c, id) THEN 1 ELSE 0
        /\ WallFires(c, "wall-left") =>
             /\ c.walled.position.x = r
             /\ c.walled.velocity.x = Mul(Abs(c.clamped.x), d)
             /\ c.walled.velocity.x >= 0
        /\ WallFires(c, "wall-right") =>
             /\ c.walled.position.x = settings.worldWidth - r
             /\ c.walled.velocity.x = -Mul(Abs(c.clamped.x), d)
             /\ c.walled.velocity.x <= 0
        /\ WallFires(c, "wall-top") =>
             /\ c.walled.position.y = r
             /\ c.walled.velocity.y = Mul(Abs(c.clamped.y), d)
             /\ c.walled.velocity.y >= 0
        /\ WallFires(c, "wall-bottom") =>
             /\ c.walled.position.y = settings.worldHeight - r
             /\ c.walled.velocity.y = -Mul(Abs(c.clamped.y), d)
             /\ c.walled.velocity.y <= 0
        /\ ~(WallFires(c, "wall-left") \/ WallFires(c, "wall-right")) =>
             /\ c.walled.position.x = c.predicted.x
             /\ c.walled.velocity.x = c.clamped.x
        /\ ~(WallFires(c, "wall-top") \/ WallFires(c, "wall-bottom")) =>
             /\ c.walled.position.y = c.predicted.y
             /\ c.walled.velocity.y = c.clamped.y
        /\ ~(Responded(c, "wall-left") /\ Responded(c, "wall-right"))
        /\ ~(Responded(c, "wall-top") /\ Responded(c, "wall-bottom"))
        /\ Cardinality({ j \in 1..Len(c.collisions) :
                           c.collisions[j].kind = "wall" }) <= 2

\* a step into a corner of the arena: an x wall and a y wall both respond,
\* and the ball is past a third wall without moving into it
WallResponseWitness ==
  \E i \in 1..Len(calls) :
    /\ Responded(calls[i], "wall-right")
    /\ Responded(calls[i], "wall-bottom")
    /\ calls[i].walled.velocity.x < 0
    /\ calls[i].walled.velocity.y < 0
    /\ Len(calls[i].collisions) = 2

\* C10: friction multiplies the velocity by max(0, 1 - friction * dt), so
\* for every dt and friction no velocity component changes sign because of
\* friction.
FrictionNeverInverts ==
  \A i \in 1..Len(calls) :
    LET c == calls[i]
        m == Max(0, ONE - Mul(settings.friction, c.dt))
    IN  /\ c.slowed = scale(c.given.velocity, m)
        /\ Sgn(c.slowed.x) * Sgn(c.given.velocity.x) >= 0
        /\ Sgn(c.slowed.y) * Sgn(c.given.velocity.y) >= 0

\* ---------------------------------------------------------------------------
\* Properties of simulateTrajectory
\* ---------------------------------------------------------------------------
\* collision events of the first k executed steps
RECURSIVE EventsUpTo(_)
EventsUpTo(k) ==
  IF k = 0 THEN 0 ELSE EventsUpTo(k - 1) + sim.results[k].events

\* C6 as stated: with maxCollisions = 0 the collision cap never ends the
\* loop; exactly `steps` points are returned.
ZeroCapRunsFullBudget ==
  (sim.pc = "done" /\ sim.maxCollisions = 0)
    => Len(sim.points) = sim.steps

\* C6 amended: with maxCollisions = 0 the cap check (collisions >= 0) holds
\* at the end of the first step, so simulateTrajectory returns one point
\* when steps >= 1 and none when steps = 0, whether or not collisions occur.
ZeroCapStopsAfterFirstStep ==
  (sim.pc = "done" /\ sim.maxCollisions = 0)
    => Len(sim.points) = Min(sim.steps, 1)

\* a preview of three steps with cap 0 that returned after a first step
\* without collisions
ZeroCapWitness ==
  /\ sim.pc = "done"
  /\ sim.maxCollisions = 0
  /\ sim.steps = MaxSteps
  /\ Len(sim.points) = 1
  /\ sim.collisions = 0

\* C7: for maxCollisions >= 1 there is one point per executed step, the
\* ball position after it; the loop stops right after the first step at
\* whose end the events of all steps so far number maxCollisions or more,
\* and otherwise runs `steps` steps; never more than `steps` points.
CapStopsTrajectory ==
  (sim.pc = "done" /\ sim.maxCollisions >= 1)
    => LET n == Len(sim.points)
       IN  /\ n <= sim.steps
           /\ n = Len(sim.results)
           /\ \A k \in 1..n : sim.points[k] = sim.results[k].state.position
           /\ \A k \in 1..(n - 1) : EventsUpTo(k) < sim.maxCollisions
           /\ EventsUpTo(n) >= sim.maxCollisions \/ n = sim.steps

\* a preview stopped by the cap before its budget, the cap being reached
\* by the events of two different steps
CapStopsTrajectoryWitness ==
  /\ sim.pc = "done"
  /\ sim.maxCollisions = 2
  /\ Len(sim.points) = 2
  /\ sim.steps > 2
  /\ sim.results[1].events = 1
  /\ EventsUpTo(2) >= 2

\* C8: stepBall and simulateTrajectory leave their inputs as they were: the
\* BallState passed to each stepBall call has its values after the call,
\* and during and after a preview the live ball state is the one it was
\* called with.
InputsNotMutated ==
  /\ \A i \in 1..Len(calls) : calls[i].input = calls[i].given
  /\ sim.pc # "idle" =>
       /\ ball.position = sim.start.position
       /\ ball.velocity = Vec(0, 0)

\* a finished preview whose last step wrote to the local state in a wall
\* response and replaced it in an obstacle response
InputsNotMutatedWitness ==
  /\ sim.pc = "done"
  /\ Len(sim.points) >= 2
  /\ \E i \in 1..Len(calls) :
       /\ \E j \in 1..Len(calls[i].log) : calls[i].log[j].kind = "wall"
       /\ \E j \in 1..Len(calls[i].log) : calls[i].log[j].kind = "bumper"
       /\ calls[i].state.position # calls[i].given.position

\* ---------------------------------------------------------------------------
\* The geometry resolver called repeatedly on one level (physics.ts 133-166)
\* ---------------------------------------------------------------------------
\* the most resolveBumpers calls recorded
MaxResolves == 3

\* a rectangle and a triangle of each orientation, without and with a static
\* rotation; a rectangle and a triangle that oscillate
ShapeLevelSet ==
  { [bumpers |-> << Rect("r0", 20, 20, 8, 8, 0), Rect("r1", 20, 20, 12, 6, 30) >>],
    [bumpers |-> << Tri("u0", 20, 20, 10, 10, "up", 0),
                    Tri("u1", 20, 20, 10, 6, "up", -12) >>],
    [bumpers |-> << Tri("d0", 20, 20, 10, 10, "down", 0),
                    Tri("d1", 20, 20, 6, 10, "down", 30) >>],
    [bumpers |-> << Tri("l0", 20, 20, 10, 10, "left", 0),
                    Tri("l1", 20, 20, 10, 6, "left", 30) >>],
    [bumpers |-> << Tri("g0", 20, 20, 10, 10, "right", 0),
                    Tri("g1", 20, 20, 10, 6, "right", 30) >>],
    [bumpers |-> << Moving(Rect("m0", 20, 20, 8, 8, 0), "x", 6, ONE, PI),
                    Moving(Tri("m1", 20, 20, 10, 10, "left", -12),
                           "y", 4, 2 * ONE, 0) >>] }

TimeSet == { 0, ONE \div 2, ONE, 3 * ONE }

GeomInit ==
  /\ level \in ShapeLevelSet
  /\ settings = Settings(ONE, 0, 20 * ONE)
  /\ ball = [position |-> Vec(0, 0), velocity |-> Vec(0, 0)]
  /\ time = 0
  /\ ticks = 0
  /\ calls = << >>
  /\ sim = SimIdle
  /\ geom = << >>
  /\ loop = Unmounted
  /\ game = Unmounted
  /\ store = Unmounted
  /\ shop = Unmounted

\* mutant: the resolver stores each moved center into the bumper's position
LevelAfterResolveMoved(lv, t) ==
  [bumpers |-> [i \in 1..Len(lv.bumpers) |->
     [lv.bumpers[i] EXCEPT
        !.position = applyMotion(lv.bumpers[i].position, lv.bumpers[i], t)]]]

\* The level object after resolveBumpers(level, time): lines 67-166 assign
\* only to locals and to the objects they allocate (the vertex arrays, the
\* center of a moving bumper, the result), never to a field of the level or
\* of a bumper.
LevelAfterResolve(lv, t) == lv

\* one call of resolveBumpers on the level, at time t
ResolveCall(t) ==
  /\ Len(geom) < MaxResolves
  /\ geom' = Append(geom, [level |-> level, time |-> t,
                           result |-> resolveBumpers(level, t),
                           after |-> LevelAfterResolve(level, t)])
  /\ level' = LevelAfterResolve(level, t)
  /\ UNCHANGED << settings, ball, time, ticks, calls, sim, loop, game, store, shop >>

GeomNext == \E t \in TimeSet : ResolveCall(t)

GeomSpec == GeomInit /\ [][GeomNext]_vars

\* the normal of an edge points away from the interior point c
PointsAway(edge, c) == dotU(sub(c, edge.from), edge.normal) < 0

\* C11: for every shape the resolver produces, every edge normal computed by
\* buildEdges from the vertex list points away from the polygon's interior
\* (the resolved center is an interior point of every shape).
OutwardNormals ==
  \A i \in 1..Len(geom) :
    \A b \in 1..Len(geom[i].result) :
      \A e \in 1..Len(geom[i].result[b].vertices) :
        PointsAway(buildEdges(geom[i].result[b].vertices)[e],
                   geom[i].result[b].center)

\* the centers and the vertex lists of a resolveBumpers result
Shapes(result) ==
  [b \in 1..Len(result) |->
     [center |-> result[b].center, vertices |-> result[b].vertices]]

LeftOfFace(c, inset) ==
  /\ Len(level.bumpers) = 1
  /\ Len(c.bumpers) = 1
  /\ level.bumpers[1].type = "rect"
  /\ ~level.bumpers[1].hasMotion
  /\ level.bumpers[1].rotation = 0
  /\ c.walled.position.x < c.bumpers[1].vertices[1].x
  /\ c.bumpers[1].vertices[1].y + inset <= c.walled.position.y
  /\ c.walled.position.y <= c.bumpers[1].vertices[4].y - inset

\* ... and it moves along +x and is closer to the face than ballRadius
HeadOn(c, inset) ==
  /\ LeftOfFace(c, inset)
  /\ c.walled.velocity.x > 0
  /\ c.walled.velocity.y = 0
  /\ c.bumpers[1].vertices[1].x - c.walled.position.x < settings.ballRadius

\* exactly one event of the obstacle, a bumper event with normal (-1, 0),
\* and the ball leaves with negative velocity.x
OneFaceEvent(c) ==
  /\ Cardinality({ i \in 1..Len(c.collisions) :
                     c.collisions[i].id = c.bumpers[1].id }) = 1
  /\ \A i \in 1..Len(c.collisions) :
       c.collisions[i].id = c.bumpers[1].id
         => /\ c.collisions[i].kind = "bumper"
            /\ c.collisions[i].normal = Vec(-UNIT, 0)
  /\ c.state.velocity.x < 0

\* the ball moves along -x, left of the face
MovingAway(c) ==
  /\ LeftOfFace(c, 0)
  /\ c.walled.velocity.x < 0
  /\ c.walled.velocity.y = 0

\* C12 as stated: a ball moving along +x toward the left face, its center y
\* anywhere within the face's span, gets in the step in which it is closer
\* to the face than ballRadius exactly one bumper event with normal (-1, 0)
\* and a negative velocity.x, and no event while it moves away.
HeadOnWithinSpan ==
  \A i \in 1..Len(calls) :
    /\ HeadOn(calls[i], 0) => OneFaceEvent(calls[i])
    /\ MovingAway(calls[i]) => ~HasEvent(calls[i], calls[i].bumpers[1].id)

\* C12 amended: the same, for a ball still left of the face whose center y
\* is at least ballRadius inside the span's ends, and damping > 0.
HeadOnInsideSpan ==
  \A i \in 1..Len(calls) :
    /\ (HeadOn(calls[i], settings.ballRadius) /\ settings.damping > 0)
         => OneFaceEvent(calls[i])
    /\ MovingAway(calls[i]) => ~HasEvent(calls[i], calls[i].bumpers[1].id)

\* the first step that brings the ball closer to the face than ballRadius
HeadOnWitness ==
  \E i \in 1..Len(calls) :
    /\ HeadOn(calls[i], settings.ballRadius)
    /\ settings.damping > 0
    /\ calls[i].bumpers[1].vertices[1].x - calls[i].given.position.x
         >= settings.ballRadius
    /\ OneFaceEvent(calls[i])

\* ---------------------------------------------------------------------------
\* Order of the responses of one stepBall call
\* ---------------------------------------------------------------------------
\* the place of a response or event in the order of resolution: the x walls,
\* the y walls, then the bumpers by their place in the list
Rank(c, entry) ==
  IF entry.id \in { "wall-left", "wall-right" } /\ entry.kind = "wall" THEN 1
  ELSE IF entry.kind = "wall" THEN 2
  ELSE 2 + (CHOOSE b \in 1..Len(c.bumpers) :
              /\ c.bumpers[b].id = entry.id
              /\ \A a \in 1..(b - 1) : c.bumpers[a].id # entry.id)

\* the first response of the log with the id of event e
FirstResponse(c, e) ==
  c.log[CHOOSE k \in 1..Len(c.log) :
          /\ c.log[k].id = e.id
          /\ \A j \in 1..(k - 1) : c.log[j].id # e.id]

\* C19: in every stepBall call the responses are applied in the order x
\* walls, y walls, bumpers in list order; each response starts from the
\* velocity left by the one before it (the first from the velocity after
\* friction and clamp); and the returned events are in that same order, each
\* the event of a response.
ResolutionOrder ==
  \A i \in 1..Len(calls) :
    LET c == calls[i]
    IN  /\ \A j, k \in 1..Len(c.log) :
             j < k => /\ Rank(c, c.log[j]) <= Rank(c, c.log[k])
                      /\ c.log[j].kind = "wall" => Rank(c, c.log[j]) < Rank(c, c.log[k])
        /\ \A k \in 1..Len(c.log) :
             c.log[k].before = IF k = 1 THEN c.clamped ELSE c.log[k - 1].after
        /\ Len(c.log) > 0 => c.state.velocity = c.log[Len(c.log)].after
        /\ \A j, k \in 1..Len(c.collisions) :
             j < k => Rank(c, c.collisions[j]) < Rank(c, c.collisions[k])
        /\ \A k \in 1..Len(c.collisions) :
             /\ Responded(c, c.collisions[k].id)
             /\ c.collisions[k].normal = FirstResponse(c, c.collisions[k]).normal
             /\ c.collisions[k].point = FirstResponse(c, c.collisions[k]).point

\* a step in which a wall and then a bumper respond
ResolutionOrderWitness ==
  \E i \in 1..Len(calls) :
    \E j, k \in 1..Len(calls[i].collisions) :
      /\ j < k
      /\ calls[i].collisions[j].kind = "wall"
      /\ calls[i].collisions[k].kind = "bumper"

\* ---------------------------------------------------------------------------
\* The response of resolveBumperCollision, stated from the edges and vertices
\* ---------------------------------------------------------------------------
\* nextState as it is when the loop of lines 330-332 reaches bumper b of
\* call c: the state after the walls, then bumpers 1..b-1
BeforeBumper(c, b) ==
  BumperLoop(SubSeq(c.bumpers, 1, b - 1), 1,
             [position |-> c.walled.position, velocity |-> c.walled.velocity,
              posObj |-> "fresh", velObj |-> "fresh", input |-> c.given,
              acc |-> [events |-> << >>, ids |-> {}],
              log |-> << >>, snaps |-> << >>],
             settings)

\* the ball is closer to the edge than ballRadius, not on it, and its
\* velocity points into it
EdgeMatches(w, edge) ==
  LET diff == sub(w.position, closestPointOnSegment(w.position, edge))
  IN  /\ length(diff) # 0
      /\ length(diff) < settings.ballRadius
      /\ dotU(w.velocity, normalize(diff)) < 0

VertexMatches(w, vertex) ==
  /\ length(sub(w.position, vertex)) < settings.ballRadius
  /\ dot(w.velocity, sub(w.position, vertex)) < 0

\* the one response with contact point p: push-out along the direction from
\* p to the ball, reflection, damping
RespondsAt(w, r, p) ==
  LET n == normalize(sub(w.position, p))
      dist == length(sub(w.position, p))
  IN  /\ Len(r.log) = Len(w.log) + 1
      /\ r.log[Len(r.log)].point = p
      /\ r.log[Len(r.log)].normal = n
      /\ r.position = add(w.position, scaleU(n, settings.ballRadius - dist))
      /\ r.velocity = scale(reflectVelocity(w.velocity, n), settings.damping)

\* r is the state after resolveBumperCollision(bumper) on state w
OneResponse(bumper, w, r) ==
  LET edges == buildEdges(bumper.vertices)
      E == { e \in 1..Len(edges) : EdgeMatches(w, edges[e]) }
      V == { v \in 1..Len(bumper.vertices) : VertexMatches(w, bumper.vertices[v]) }
  IN  IF E # {}
        THEN RespondsAt(w, r, closestPointOnSegment(w.position,
               edges[CHOOSE e \in E : \A f \in E : e <= f]))
      ELSE IF V # {}
        THEN RespondsAt(w, r,
               bumper.vertices[CHOOSE v \in V : \A u \in V : v <= u])
      ELSE r = w

\* C20: for every obstacle of every stepBall call, resolveBumperCollision
\* applies no response, or exactly one: that of the first edge in vertex
\* order closer than ballRadius with the velocity pointing into it, else
\* (no edge matched) that of the first vertex closer than ballRadius with
\* the velocity pointing toward it.
OneResponsePerObstacle ==
  \A i \in 1..Len(calls) :
    \A b \in 1..Len(calls[i].bumpers) :
      OneResponse(calls[i].bumpers[b], BeforeBumper(calls[i], b),
                  BeforeBumper(calls[i], b + 1))

\* a step in which two edges of one obstacle match and one response is made
OneResponsePerObstacleWitness ==
  \E i \in 1..Len(calls) :
    \E b \in 1..Len(calls[i].bumpers) :
      /\ Cardinality({ e \in 1..Len(calls[i].bumpers[b].vertices) :
           EdgeMatches(BeforeBumper(calls[i], b),
                       buildEdges(calls[i].bumpers[b].vertices)[e]) }) >= 2
      /\ Len(BeforeBumper(calls[i], b + 1).log)
           = Len(BeforeBumper(calls[i], b).log) + 1

\* the contact points of bumper at distance zero from the ball: the nearest
\* point of an edge, or a vertex
DegeneratePoints(bumper, w) ==
  { p \in { closestPointOnSegment(w.position, buildEdges(bumper.vertices)[e]) :
              e \in 1..Len(bumper.vertices) }
          \cup { bumper.vertices[v] : v \in 1..Len(bumper.vertices) } :
      p = w.position }

\* r is the state after resolveBumperCollision(bumper) on state w: no event
\* at the ball's own position, and no change at all unless another edge or
\* vertex matches
NoDegenerateResponse(bumper, w, r) ==
  DegeneratePoints(bumper, w) # {} =>
    /\ Len(r.log) > Len(w.log) => r.log[Len(r.log)].point # w.position
    /\ Len(r.acc.events) > Len(w.acc.events) =>
         r.acc.events[Len(r.acc.events)].point # w.position
    /\ (/\ \A e \in 1..Len(bumper.vertices) :
             ~EdgeMatches(w, buildEdges(bumper.vertices)[e])
        /\ \A v \in 1..Len(bumper.vertices) :
             ~VertexMatches(w, bumper.vertices[v]))
         => /\ r.position = w.position
            /\ r.velocity = w.velocity
            /\ r.acc = w.acc
            /\ r.log = w.log

\* C21: when the ball center coincides with the closest point of an edge or
\* with a vertex, that edge or vertex check changes neither position nor
\* velocity and emits no event.
DegenerateContact ==
  \A i \in 1..Len(calls) :
    \A b \in 1..Len(calls[i].bumpers) :
      NoDegenerateResponse(calls[i].bumpers[b], BeforeBumper(calls[i], b),
                           BeforeBumper(calls[i], b + 1))

\* a moving ball whose center is on a vertex of an obstacle, hence on the
\* closest point of two edges, when the obstacle is resolved
DegenerateContactWitness ==
  \E i \in 1..Len(calls) :
    \E b \in 1..Len(calls[i].bumpers) :
      /\ \E v \in 1..Len(calls[i].bumpers[b].vertices) :
           calls[i].bumpers[b].vertices[v] = BeforeBumper(calls[i], b).position
      /\ BeforeBumper(calls[i], b).velocity # Vec(0, 0)
      /\ BeforeBumper(calls[i], b + 1).position = BeforeBumper(calls[i], b).position
      /\ calls[i].collisions = << >>

\* C22: the position stepBall predicts, before any collision correction, is
\* position + velocity * dt with the velocity as passed in: neither friction
\* nor the maxSpeed clamp has touched it.
PredictionUsesInputVelocity ==
  \A i \in 1..Len(calls) :
    calls[i].predicted =
      Vec(calls[i].given.position.x + Mul(calls[i].given.velocity.x, calls[i].dt),
          calls[i].given.position.y + Mul(calls[i].given.velocity.y, calls[i].dt))

\* a step whose input speed is above maxSpeed: the ball moved by the
\* unclamped velocity, farther than maxSpeed * dt along x
PredictionUsesInputVelocityWitness ==
  \E i \in 1..Len(calls) :
    /\ length(calls[i].given.velocity) > settings.maxSpeed
    /\ length(calls[i].clamped) <= settings.maxSpeed + Eps
    /\ Abs(calls[i].predicted.x - calls[i].given.position.x)
         > Mul(settings.maxSpeed, calls[i].dt)

\* polygons p and q of bumper, resolved at two times, differ by a translation
\* along the motion axis
TranslatedAlongAxis(bumper, p, q) ==
  /\ \A k \in 1..Len(p.vertices) :
       /\ sub(q.vertices[k], q.center) = sub(p.vertices[k], p.center)
       /\ q.vertices[k] = add(p.vertices[k], sub(q.center, p.center))
       /\ (bumper.hasMotion /\ bumper.motion.axis = "x")
            => q.vertices[k].y = p.vertices[k].y
       /\ (bumper.hasMotion /\ bumper.motion.axis # "x")
            => q.vertices[k].x = p.vertices[k].x
  /\ (bumper.hasMotion /\ bumper.motion.axis = "x")
       => p.center.y = bumper.position.y /\ q.center.y = bumper.position.y
  /\ (bumper.hasMotion /\ bumper.motion.axis # "x")
       => p.center.x = bumper.position.x /\ q.center.x = bumper.position.x
  /\ ~bumper.hasMotion => p.center = bumper.position /\ q = p

\* C23: for every obstacle and every two times, the polygon resolved at one
\* time is the polygon resolved at the other, translated along the motion
\* axis only; an obstacle without motion has its center at the base position
\* and the same geometry at every time.
MotionIsTranslation ==
  \A i, j \in 1..Len(geom) :
    geom[i].level = geom[j].level =>
      \A b \in 1..Len(geom[i].level.bumpers) :
        TranslatedAlongAxis(geom[i].level.bumpers[b],
                            geom[i].result[b], geom[j].result[b])

\* a rotated moving obstacle resolved at two times, at two centers
MotionIsTranslationWitness ==
  \E i, j \in 1..Len(geom) :
    \E b \in 1..Len(geom[i].level.bumpers) :
      /\ geom[i].level = geom[j].level
      /\ geom[i].time # geom[j].time
      /\ geom[i].level.bumpers[b].hasMotion
      /\ geom[i].level.bumpers[b].rotation # 0
      /\ geom[i].result[b].center # geom[j].result[b].center

\* C24: step i (0-based) of simulateTrajectory calls stepBall with the
\* geometry resolved at initialTime + i * dt, and after every executed step,
\* with or without a collision, the time has advanced by dt.
TrajectoryGeometryTime ==
  sim.pc # "idle" =>
    /\ \A k \in 1..Len(sim.results) :
         sim.results[k].bumpers = resolveBumpers(level, time + (k - 1) * sim.dt)
    /\ sim.time = time + Len(sim.results) * sim.dt

\* a preview from a nonzero time over a moving obstacle: its first step had
\* a collision, and its second step used another geometry
TrajectoryGeometryTimeWitness ==
  /\ sim.pc # "idle"
  /\ time # 0
  /\ Len(sim.results) >= 2
  /\ sim.results[1].events > 0
  /\ sim.results[2].bumpers # sim.results[1].bumpers


\* ---------------------------------------------------------------------------
\* useAnimationLoop (useAnimationLoop.ts)
\* ---------------------------------------------------------------------------
\* Time of the frame driver.  A timestamp is a number of milliseconds with
\* MS units per millisecond; a duration in seconds has SEC units per second,
\* so that 1/240 s, 0.05 s and 0.00001 s are the whole numbers 5000, 60000
\* and 12.
MS == 100

SEC == 1200000

\* the most effect instances (activations) and animation frames of a run
MaxLoops == 3

MaxFrames == 3

\* line 31: dtMs / 1000
MsToSeconds(dtMs) == (dtMs * (SEC \div 1000)) \div MS

\* line 31: the cap of 0.05 s
FrameCap == (5 * SEC) \div 100

\* mutant: no lower clamp
CappedDtNoFloor(dtMs) == Min(MsToSeconds(dtMs), FrameCap)

\* line 31: Math.min(Math.max(dtMs / 1000, 0), 0.05)
CappedDt(dtMs) == Min(Max(MsToSeconds(dtMs), 0), FrameCap)

\* frame timestamps: 0, 5 ms, 16.67 ms, 50 ms, 50.01 ms, 200 ms
StampSet == { 0, 5 * MS, 1667, 50 * MS, 50 * MS + 1, 200 * MS }

\* lines 8 and 36 have not run: the hook is mounted with active = false
LoopMounted ==
  [active |-> FALSE,
   lastTime |-> << >>,     \* lastTimeRef.current: << >> is null
   effects |-> << >>,      \* the effect instances: their running and frameId
   requests |-> << >>,     \* the pending requestAnimationFrame requests
   nextId |-> 1,           \* the next request id of the platform
   frames |-> 0,           \* animation frames run so far
   delivered |-> << >>,    \* the invocations of callbackRef.current
   skipped |-> << >>]      \* the invocations of loop that returned early

\* lines 16-17 and 36: the effect body of instance k = Len(effects) + 1
ActivatedLoop(L) ==
  [L EXCEPT !.active = TRUE,
            !.effects = Append(@, [running |-> TRUE, frameId |-> L.nextId,
                                   count |-> 0, cleaned |-> FALSE]),
            !.requests = Append(@, [id |-> L.nextId,
                                    owner |-> Len(L.effects) + 1]),
            !.nextId = @ + 1]

\* mutant: the cleanup leaves the running flag set
CleanedEffectStillRunning(inst) == [inst EXCEPT !.cleaned = TRUE]

\* line 39: running = false (cleaned records that the cleanup has run)
CleanedEffect(inst) == [inst EXCEPT !.running = FALSE, !.cleaned = TRUE]

\* sequence q without the requests of id
WithoutRequest(q, id) == SelectSeq(q, LAMBDA r : r.id # id)

\* lines 38-42: the cleanup of the live instance k.  cancelled says whether
\* cancelAnimationFrame(frameId) still finds the request: a frame that is
\* already being delivered by the platform is not taken back.
CleanedLoop(L, k, cancelled) ==
  [L EXCEPT !.active = FALSE,
            !.effects[k] = CleanedEffect(@),
            !.requests = IF cancelled
                           THEN WithoutRequest(@, L.effects[k].frameId)
                           ELSE @,
            !.lastTime = << >>]

\* lines 24-33 for instance k, dtMs being timestamp - lastTimeRef.current
Deliver(L, k, timestamp, dtMs) ==
  [L EXCEPT !.lastTime = << timestamp >>,
            !.delivered = Append(@, [dt |-> CappedDt(dtMs), dtMs |-> dtMs,
                                     timestamp |-> timestamp, owner |-> k,
                                     frame |-> L.frames,
                                     first |-> L.effects[k].count = 0,
                                     cleaned |-> L.effects[k].cleaned]),
            !.effects[k].count = @ + 1,
            !.effects[k].frameId = L.nextId,
            !.requests = Append(@, [id |-> L.nextId, owner |-> k]),
            !.nextId = @ + 1]

\* lines 19-34: loop(timestamp) of instance k
LoopBody(L, k, timestamp) ==
  IF ~L.effects[k].running
    THEN [L EXCEPT !.skipped = Append(@, [owner |-> k, frame |-> L.frames])]
    ELSE Deliver(L, k, timestamp,
                 IF L.lastTime = << >> THEN 0
                 ELSE timestamp - L.lastTime[1])

\* the platform runs the callbacks q[i..] of one animation frame
RECURSIVE RunCallbacks(_, _, _, _)
RunCallbacks(q, i, L, timestamp) ==
  IF i > Len(q) THEN L
  ELSE RunCallbacks(q, i + 1, LoopBody(L, q[i].owner, timestamp), timestamp)

LoopInit ==
  /\ loop = LoopMounted
  /\ settings = Settings(ONE, 0, 20 * ONE)
  /\ level = [bumpers |-> << >>]
  /\ ball = [position |-> Vec(0, 0), velocity |-> Vec(0, 0)]
  /\ time = 0
  /\ ticks = 0
  /\ calls = << >>
  /\ sim = SimIdle
  /\ geom = << >>
  /\ game = Unmounted
  /\ store = Unmounted
  /\ shop = Unmounted

\* active becomes true: the effect runs
Activate ==
  /\ ~loop.active
  /\ Len(loop.effects) < MaxLoops
  /\ loop' = ActivatedLoop(loop)
  /\ UNCHANGED << physVars, geom, game, store, shop >>

\* active becomes false, or the component unmounts: the cleanup runs
Deactivate(cancelled) ==
  /\ loop.active
  /\ loop' = CleanedLoop(loop, Len(loop.effects), cancelled)
  /\ UNCHANGED << physVars, geom, game, store, shop >>

\* the platform runs one animation frame: every request pending at its start
\* is called with the frame's timestamp, in the order of the requests
AnimationFrame(timestamp) ==
  /\ loop.frames < MaxFrames
  /\ loop.requests # << >>
  /\ loop' = RunCallbacks(loop.requests, 1,
                          [loop EXCEPT !.requests = << >>,
                                       !.frames = @ + 1],
                          timestamp)
  /\ UNCHANGED << physVars, geom, game, store, shop >>

LoopNext ==
  \/ Activate
  \/ \E cancelled \in BOOLEAN : Deactivate(cancelled)
  \/ \E timestamp \in StampSet : AnimationFrame(timestamp)

LoopSpec == LoopInit /\ [][LoopNext]_vars

\* C16: every dt handed to the callback lies in [0, 0.05 s], whatever the
\* order of the frame timestamps, and the first frame an effect instance
\* delivers after its (re)activation has dt = 0.
FrameDeltaCap ==
  \A i \in 1..Len(loop.delivered) :
    /\ loop.delivered[i].dt >= 0
    /\ loop.delivered[i].dt <= (5 * SEC) \div 100
    /\ loop.delivered[i].first => loop.delivered[i].dt = 0

\* a re-activated loop has delivered its first frame, a frame went back in
\* time, and a frame came more than 50 ms after the last
FrameDeltaCapWitness ==
  /\ \E i \in 1..Len(loop.delivered) :
       loop.delivered[i].first /\ loop.delivered[i].owner > 1
  /\ \E i \in 1..Len(loop.delivered) :
       loop.delivered[i].dtMs < 0 /\ loop.delivered[i].dt = 0
  /\ \E i \in 1..Len(loop.delivered) :
       /\ loop.delivered[i].dtMs > 50 * MS
       /\ loop.delivered[i].dt = (5 * SEC) \div 100

\* C17: an effect instance whose cleanup has run never invokes the callback
\* again, even when one of its requests still fires; at most one instance is
\* live (exactly one while active), and the callback runs at most once per
\* animation frame.
LoopCancellation ==
  /\ \A i \in 1..Len(loop.delivered) : ~loop.delivered[i].cleaned
  /\ Cardinality({ k \in 1..Len(loop.effects) : loop.effects[k].running })
       = IF loop.active THEN 1 ELSE 0
  /\ \A i, j \in 1..Len(loop.delivered) :
       loop.delivered[i].frame = loop.delivered[j].frame => i = j

\* a request of a cleaned-up instance fired in the frame in which the
\* re-activated instance delivered
LoopCancellationWitness ==
  \E i \in 1..Len(loop.skipped), j \in 1..Len(loop.delivered) :
    /\ loop.skipped[i].frame = loop.delivered[j].frame
    /\ loop.skipped[i].owner < loop.delivered[j].owner


\* ---------------------------------------------------------------------------
\* The progress store (GameRoot.tsx 485-721) and the BounceGame component
\* (part_000): the level lifecycle, the launch and the frame callback
\* ---------------------------------------------------------------------------
\* physics time units (ONE each) per second: the sub-step of 1/240 s is the
\* time step ONE / 2 of the physics core
TimeScale == 120

\* seconds of the frame driver to the time of the physics core
PhysTime(t) == RDiv(t * ONE * TimeScale, SEC)

\* part_000 557-558: the sub-step loop's threshold and ceiling
SubStepThreshold == SEC \div 100000

SubStepCeiling == SEC \div 240

\* part_000 65-66
IDLE_THRESHOLD == ONE

IDLE_TIMEOUT == 2 * SEC

\* levels.ts 7: TARGET_SIZE, to the scale of the arena
TARGET_SIZE == 8 * ONE

\* part_000 454-461: maxDrag, the least drag and the launch strength, to the
\* scale of the arena
MaxDrag == 16 * ONE

MinDrag == (6 * ONE) \div 10

LaunchStrength == 20 * ONE

\* part_000 83-90: getPhysicsSettings
GameSettings == Settings((88 * ONE) \div 100, (18 * ONE) \div 100, 35 * ONE)

\* levels.ts 28: two levels; the second starts next to the top left corner
LEVELS ==
  << [bumpers |-> << >>, bounceLimit |-> 1,
      ballStart |-> Vec(8 * ONE, 32 * ONE),
      target |-> [position |-> Vec(32 * ONE, 8 * ONE)]],
     [bumpers |-> << Rect("b1", 24, 20, 8, 8, 0) >>, bounceLimit |-> 2,
      ballStart |-> Vec(6 * ONE, 6 * ONE),
      target |-> [position |-> Vec(32 * ONE, 32 * ONE)]] >>

\* the most frames of a session
MaxGameFrames == 2

\* frame deltas useAnimationLoop delivers: 0; the threshold; one sub-step and
\* a rest at the threshold; one sub-step and a rest above it; 1/60 s; 0.05 s
FrameDtSet ==
  { 0, SubStepThreshold, SubStepCeiling + SubStepThreshold,
    SubStepCeiling + 2 * SubStepThreshold, 20004, (5 * SEC) \div 100 }

\* drags (touch - ball position) at release
DragSet ==
  { Vec(-8 * ONE, 8 * ONE), Vec(-16 * ONE, 16 * ONE), Vec(3 * ONE, 3 * ONE),
    Vec(0, ONE \div 2) }

\* GameRoot.tsx 496-503 (the fields the game reads or writes), and loaded
\* states
DefaultStore ==
  [coins |-> 0, highestUnlockedLevel |-> 0, totalWins |-> 0,
   lastPlayedLevel |-> 0]

StoreSet ==
  { DefaultStore,
    [DefaultStore EXCEPT !.highestUnlockedLevel = 1, !.lastPlayedLevel = 1],
    [DefaultStore EXCEPT !.highestUnlockedLevel = 1],
    [DefaultStore EXCEPT !.lastPlayedLevel = 3] }

\* GameRoot.tsx 13-16: startLevelIndex
startLevelIndex(st) == Max(0, Min(st.lastPlayedLevel, Len(LEVELS) - 1))

\* part_000 135-138
highestUnlocked(st) == Min(st.highestUnlockedLevel, Len(LEVELS) - 1)

\* part_000 140-143
clampedStart(st) == clamp(startLevelIndex(st), 0, highestUnlocked(st))

\* GameRoot.tsx 669-674
setLastPlayedLevel(st, levelIndex) ==
  [st EXCEPT !.lastPlayedLevel = Max(0, levelIndex)]

\* GameRoot.tsx 616-634 (rewardCoins is a whole number here)
recordWin(st, rewardCoins, nextLevelIndex) ==
  [st EXCEPT !.coins = @ + Max(0, rewardCoins),
             !.totalWins = @ + 1,
             !.highestUnlockedLevel = Max(@, nextLevelIndex),
             !.lastPlayedLevel = Max(0, nextLevelIndex)]

\* the last frame before any frame has run
NoFrame ==
  [dt |-> 0, physics |-> FALSE, from |-> 0, start |-> << >>,
   steps |-> << >>, collisions |-> << >>, leftover |-> 0]

\* part_000 145-177: the state and refs of a new component for clamped
\* start index.  event names the handler that ran last ("mount", "retry",
\* "next", "start" for the start-level effect, "release", "frame"), frames counts the
\* frames of the session, short those of them with 0 < dt <= 0.00001 s, events the collision events since the launch and
\* frame records the last frame.
MountedGame(index, frames) ==
  [levelIndex |-> index, status |-> "aim", failReason |-> "null",
   remainingBounces |-> LEVELS[index + 1].bounceLimit,
   moving |-> FALSE, idleTimer |-> 0, bounceCount |-> 0, time |-> 0,
   sessionCoins |-> 0, winReward |-> 0,
   event |-> "mount", frames |-> frames, short |-> 0, events |-> 0,
   frame |-> NoFrame]

\* the world of the handlers: W.game, W.ball (ballRef.current), W.level
\* (levelRef.current) and W.store
World == [game |-> game, ball |-> ball, level |-> level, store |-> store]

MountedWorld(st, frames) ==
  [game |-> MountedGame(clampedStart(st), frames),
   ball |-> [position |-> LEVELS[clampedStart(st) + 1].ballStart,
             velocity |-> Vec(0, 0)],
   level |-> LEVELS[clampedStart(st) + 1],
   store |-> st]

\* mutant: the simulation time and the bounce count survive the reset
ResetKeepsRun(W, index) ==
  [W EXCEPT !.level = LEVELS[index + 1],
            !.store = setLastPlayedLevel(@, index),
            !.ball = [position |-> LEVELS[index + 1].ballStart,
                      velocity |-> Vec(0, 0)],
            !.game = [@ EXCEPT !.levelIndex = index,
                               !.status = "aim",
                               !.failReason = "null",
                               !.remainingBounces = LEVELS[index + 1].bounceLimit,
                               !.idleTimer = 0,
                               !.moving = FALSE,
                               !.sessionCoins = 0,
                               !.winReward = 0,
                               !.event = "reset"]]

\* part_000 269-297, index being nextIndex % LEVELS.length
Reset(W, index) ==
  [W EXCEPT !.level = LEVELS[index + 1],
            !.store = setLastPlayedLevel(@, index),
            !.ball = [position |-> LEVELS[index + 1].ballStart,
                      velocity |-> Vec(0, 0)],
            !.game = [@ EXCEPT !.levelIndex = index,
                               !.time = 0,
                               !.status = "aim",
                               !.failReason = "null",
                               !.bounceCount = 0,
                               !.remainingBounces = LEVELS[index + 1].bounceLimit,
                               !.idleTimer = 0,
                               !.moving = FALSE,
                               !.sessionCoins = 0,
                               !.winReward = 0,
                               !.event = "reset"]]

\* part_000 266-299
resetLevel(W, nextIndex) == Reset(W, nextIndex % Len(LEVELS))

\* part_000 312-330: statusRef, movingRef, the reward, recordWin, the ball
Won(W, totalReward, nextLevelIndex) ==
  [W EXCEPT !.game.status = "win",
            !.game.moving = FALSE,
            !.game.winReward = totalReward,
            !.game.sessionCoins = 0,
            !.store = recordWin(@, totalReward, nextLevelIndex),
            !.ball.velocity = Vec(0, 0)]

\* part_000 316-324: baseReward + bounceBonus + runBonus + momentumBonus
TotalReward(W) ==
  120 + W.game.levelIndex * 25
  + Max(0, W.level.bounceLimit - W.game.bounceCount) * 40
  + W.game.sessionCoins
  + clamp(length(W.ball.velocity), 0, 280 * ONE) \div ONE

\* part_000 307-339
handleWin(W) ==
  IF W.game.status = "win" THEN W
  ELSE Won(W, TotalReward(W),
           Min(W.game.levelIndex + 1, Len(LEVELS) - 1))

\* mutant: the failure leaves the ball its velocity
handleFailKeepsVelocity(W, reason) ==
  IF W.game.status = "fail" \/ W.game.status = "win" THEN W
  ELSE [W EXCEPT !.game.status = "fail",
                 !.game.failReason = reason,
                 !.game.moving = FALSE,
                 !.game.sessionCoins = 0,
                 !.game.winReward = 0]

\* part_000 341-361
handleFail(W, reason) ==
  IF W.game.status = "fail" \/ W.game.status = "win" THEN W
  ELSE [W EXCEPT !.game.status = "fail",
                 !.game.failReason = reason,
                 !.game.moving = FALSE,
                 !.ball.velocity = Vec(0, 0),
                 !.game.sessionCoins = 0,
                 !.game.winReward = 0]

\* part_000 463-471: the launch with velocity
Launched(W, velocity) ==
  [W EXCEPT !.ball.velocity = velocity,
            !.game.moving = TRUE,
            !.game.status = "playing",
            !.game.idleTimer = 0,
            !.game.bounceCount = 0,
            !.game.remainingBounces = W.level.bounceLimit,
            !.game.events = 0,
            !.game.event = "release"]

\* part_000 459-461: strength, by the drag's length
Strength(dragLength) ==
  RDiv(clamp(dragLength, 0, MaxDrag) * LaunchStrength, MaxDrag)

\* part_000 436-473: onPanResponderRelease with a drag in progress
Released(W, dragVec) ==
  IF length(dragVec) < MinDrag THEN [W EXCEPT !.game.event = "release"]
  ELSE Launched(W, scaleU(normalize(dragVec), -Strength(length(dragVec))))

\* part_000 543-544 (and the record of the frame)
Tick(W, dt) ==
  [W EXCEPT !.game.time = @ + dt,
            !.game.frames = @ + 1,
            !.game.short = IF dt > 0 /\ dt <= SubStepThreshold THEN @ + 1 ELSE @,
            !.game.event = "frame",
            !.game.frame = [NoFrame EXCEPT !.dt = dt, !.leftover = dt,
                                           !.from = W.game.time,
                                           !.start = W.ball]]

\* part_000 567-569: the result r of the sub-step becomes the live state
Stepped(W, stepDt, r) ==
  [W EXCEPT !.ball = r.state,
            !.game.frame.steps = Append(@, [dt |-> stepDt, given |-> r.given,
                                            state |-> r.state,
                                            events |-> Len(r.collisions)]),
            !.game.frame.collisions = @ \o r.collisions,
            !.game.events = @ + Len(r.collisions)]

\* part_000 559-566: geometry at the sub-step's time, then stepBall
SubStep(W, stepDt, subStepTime) ==
  Stepped(W, stepDt,
          stepBall(W.ball, resolveBumpers(W.level, PhysTime(subStepTime)),
                   PhysTime(stepDt), settings))

\* mutant: the whole rest of the frame in one step
SubStepDtWhole(remaining) == remaining

\* part_000 558
SubStepDt(remaining) == Min(remaining, SubStepCeiling)

\* part_000 557-570: while (remaining > 0.00001)
RECURSIVE SubStepLoop(_, _, _)
SubStepLoop(W, remaining, subStepTime) ==
  IF remaining > SubStepThreshold
    THEN SubStepLoop(SubStep(W, SubStepDt(remaining),
                             subStepTime + SubStepDt(remaining)),
                     remaining - SubStepDt(remaining),
                     subStepTime + SubStepDt(remaining))
    ELSE [W EXCEPT !.game.frame.leftover = remaining,
                   !.game.frame.physics = TRUE]

\* part_000 496-505: 6 coins for a bumper event, 2 for a wall event
RECURSIVE FrameCoins(_, _)
FrameCoins(events, i) ==
  IF i > Len(events) THEN 0
  ELSE (IF events[i].kind = "bumper" THEN 6 ELSE 2) + FrameCoins(events, i + 1)

\* part_000 483-519: spawnCollisionEffects, the session's coins
CollisionEffects(W, frameCoins) ==
  IF frameCoins > 0 /\ W.game.status = "playing"
    THEN [W EXCEPT !.game.sessionCoins = @ + frameCoins]
    ELSE W

\* mutant: the failure at a remaining cap of 0
BounceCheckAtZero(W, remainingCap) ==
  IF remainingCap <= 0 THEN handleFail(W, "bounces") ELSE W

\* part_000 580-582
BounceCheck(W, remainingCap) ==
  IF remainingCap < 0 THEN handleFail(W, "bounces") ELSE W

\* part_000 577-579: count is the updated bounceCountRef.current
Counted(W, count) ==
  BounceCheck([W EXCEPT !.game.bounceCount = count,
                        !.game.remainingBounces =
                          Max(W.level.bounceLimit - count, 0)],
              W.level.bounceLimit - count)

\* part_000 575-583
BounceAccounting(W) ==
  IF Len(W.game.frame.collisions) > 0
    THEN Counted(CollisionEffects(W, FrameCoins(W.game.frame.collisions, 1)),
                 W.game.bounceCount + Len(W.game.frame.collisions))
    ELSE W

\* part_000 585-593
WinCheck(W) ==
  IF length(sub(W.ball.position, W.level.target.position))
       <= TARGET_SIZE \div 2 + settings.ballRadius
    THEN handleWin(W) ELSE W

\* part_000 595-603
BoundsCheck(W) ==
  IF \/ W.ball.position.x < -((3 * settings.ballRadius) \div 2)
     \/ W.ball.position.x > settings.worldWidth + (3 * settings.ballRadius) \div 2
     \/ W.ball.position.y < -((3 * settings.ballRadius) \div 2)
     \/ W.ball.position.y > settings.worldHeight + (3 * settings.ballRadius) \div 2
    THEN handleFail(W, "bounds") ELSE W

\* mutant: the idle timer runs, and no stall is declared
IdleForever(W, idleTimer) == [W EXCEPT !.game.idleTimer = idleTimer]

\* part_000 607-610: the speed is below the threshold
Idle(W, idleTimer) ==
  IF idleTimer > IDLE_TIMEOUT
    THEN handleFail([W EXCEPT !.game.idleTimer = idleTimer], "stall")
    ELSE [W EXCEPT !.game.idleTimer = idleTimer]

\* part_000 605-613
StallCheck(W, dt) ==
  IF length(W.ball.velocity) < IDLE_THRESHOLD
    THEN Idle(W, W.game.idleTimer + dt)
    ELSE [W EXCEPT !.game.idleTimer = 0]

\* part_000 541-619: the callback of useAnimationLoop
FrameCallback(W, dt) ==
  IF W.game.status = "playing" /\ W.game.moving
    THEN StallCheck(
           BoundsCheck(WinCheck(BounceAccounting(
             SubStepLoop(Tick(W, dt), dt, W.game.time)))),
           dt)
    ELSE Tick(W, dt)

\* the world after a handler, with the handler's name
Named(W, event) == [W EXCEPT !.game.event = event]

\* the handlers' world becomes the state
Becomes(W) ==
  /\ game' = W.game
  /\ ball' = W.ball
  /\ level' = W.level
  /\ store' = W.store
  /\ UNCHANGED << settings, time, ticks, calls, sim, geom, loop, shop >>

\* the game screen opens on a store: the component mounts
GameInit ==
  /\ \E st \in StoreSet :
       /\ game = MountedWorld(st, 0).game
       /\ ball = MountedWorld(st, 0).ball
       /\ level = MountedWorld(st, 0).level
       /\ store = st
  /\ settings = GameSettings
  /\ time = 0
  /\ ticks = 0
  /\ calls = << >>
  /\ sim = SimIdle
  /\ geom = << >>
  /\ loop = Unmounted
  /\ shop = Unmounted

\* one animation frame with delta dt
Frame(dt) ==
  /\ game.frames < MaxGameFrames
  /\ Becomes(FrameCallback(World, dt))

\* the player lets go of a drag (the responder is granted in 'aim' only)
Release(dragVec) ==
  /\ game.status = "aim"
  /\ Becomes(Released(World, dragVec))

\* part_000 621-623, the Retry button of the fail overlay
onRetry ==
  /\ game.status = "fail"
  /\ Becomes(Named(resetLevel(World, game.levelIndex), "retry"))

\* part_000 625-627, the Next Level button of the win overlay
onNextLevel ==
  /\ game.status = "win"
  /\ Becomes(Named(resetLevel(World, game.levelIndex + 1), "next"))

\* part_000 301-305: the effect on clampedStart and levelIndex
StartLevelEffect ==
  /\ clampedStart(store) # game.levelIndex
  /\ Becomes(Named(resetLevel(World, clampedStart(store)), "start"))

\* Menu, then Start: the component unmounts, and a new one mounts
Remount ==
  /\ game.event # "mount"
  /\ Becomes(MountedWorld(store, game.frames))

GameNext ==
  \/ \E dt \in FrameDtSet : Frame(dt)
  \/ \E dragVec \in DragSet : Release(dragVec)
  \/ onRetry
  \/ onNextLevel
  \/ StartLevelEffect
  \/ Remount

GameSpec == GameInit /\ [][GameNext]_vars


\* C14: whenever a level starts or restarts (the mount, Retry, Next Level,
\* the start-level effect), the live ball is at the level's ballStart with
\* zero velocity, the status is 'aim', the bounce count is 0 and the
\* simulation time is 0.
LevelStartState ==
  game.event \in {"mount", "retry", "next", "start"} =>
    /\ level = LEVELS[game.levelIndex + 1]
    /\ ball = [position |-> level.ballStart, velocity |-> Vec(0, 0)]
    /\ game.status = "aim"
    /\ game.bounceCount = 0
    /\ game.time = 0

\* a level was reset after a frame of a run that counted a bounce
LevelStartStateWitness ==
  /\ game.event = "retry"
  /\ game.frame.physics
  /\ game.frame.dt > 0
  /\ game.events > 0

RECURSIVE SumOfSteps(_, _)
SumOfSteps(steps, i) ==
  IF i > Len(steps) THEN 0 ELSE steps[i].dt + SumOfSteps(steps, i + 1)

\* C15: in a frame in which physics runs, the frame's dt is split into
\* consecutive stepBall calls (each starts from the state the one before
\* returned), every call's dt is > 0 and <= 1/240 s, and the rest left
\* unsimulated is <= 0.00001 s.
SubStepCeilingHolds ==
  (game.event = "frame" /\ game.frame.physics) =>
    /\ \A i \in 1..Len(game.frame.steps) :
         /\ game.frame.steps[i].dt > 0
         /\ 240 * game.frame.steps[i].dt <= SEC
         /\ game.frame.steps[i].given =
              IF i = 1 THEN game.frame.start
              ELSE game.frame.steps[i - 1].state
    /\ SumOfSteps(game.frame.steps, 1) + game.frame.leftover = game.frame.dt
    /\ game.frame.leftover >= 0
    /\ 100000 * game.frame.leftover <= SEC
    /\ game.frame.steps # << >> =>
         ball.position = game.frame.steps[Len(game.frame.steps)].state.position

\* a frame of one full sub-step and a shorter one, and nothing left over
SubStepCeilingWitness ==
  /\ game.event = "frame"
  /\ game.frame.physics
  /\ Len(game.frame.steps) = 2
  /\ game.frame.steps[1].dt > game.frame.steps[2].dt
  /\ game.frame.leftover = 0

\* C18: in a frame of a run, the 'bounces' failure is triggered exactly when
\* the collision events counted since the launch exceed the level's
\* bounceLimit at the end of the frame (they did not at its start); a count
\* equal to bounceLimit does not fail; from the launch to the next level
\* start the displayed remaining count is max(bounceLimit - count, 0).
BounceBudget ==
  /\ (game.event = "frame" /\ game.frame.physics) =>
       /\ game.events - Len(game.frame.collisions) <= level.bounceLimit
       /\ game.events > level.bounceLimit => game.failReason = "bounces"
       /\ game.events <= level.bounceLimit => game.failReason # "bounces"
  /\ game.status # "aim" =>
       /\ game.bounceCount = game.events
       /\ game.remainingBounces = Max(level.bounceLimit - game.events, 0)

\* a run stood at exactly bounceLimit events when a frame began, and the
\* frame's events failed it
BounceBudgetWitness ==
  /\ game.event = "frame"
  /\ game.frame.physics
  /\ game.events - Len(game.frame.collisions) = level.bounceLimit
  /\ game.events > level.bounceLimit
  /\ game.status = "fail"
  /\ game.failReason = "bounces"
  /\ game.remainingBounces = 0


\* C25: a run that handleFail has failed does not become a win before
\* resetLevel starts a new attempt (resetLevel clears the fail reason): the
\* fail reason is non-null only while the status is 'fail', and a win --
\* with its reward recorded in the store -- comes with no fail reason.
FailedRunStaysFailed ==
  /\ game.failReason # "null" => game.status = "fail"
  /\ game.status = "win" => game.failReason = "null"


\* C26: after a win the game stays in status 'win' on the same level until
\* the player presses Next Level or leaves the screen (Menu, Shop): no other
\* step -- a frame, the start-level effect -- resets the level or changes
\* levelIndex.
WinStaysUntilPressed ==
  [][game.status = "win" =>
       \/ game'.status = "win" /\ game'.levelIndex = game.levelIndex
       \/ game'.event \in {"next", "mount"}]_vars


\* C28: physics advances only during play.  A frame changes the live ball
\* state or the bounce count only when the status at its start is 'playing'
\* and the moving flag is set -- so in 'aim', 'win' and 'fail' every frame
\* leaves both unchanged -- and outside play ('aim', 'win', 'fail': after a
\* win or a fail and until the next launch) the ball velocity is zero.
PhysicsOnlyInPlay ==
  /\ [](game.status \in {"aim", "win", "fail"} => ball.velocity = Vec(0, 0))
  /\ [][(/\ game'.event = "frame"
          /\ game'.frames = game.frames + 1
          /\ \/ ball' # ball
             \/ game'.bounceCount # game.bounceCount)
           => game.status = "playing" /\ game.moving]_vars

\* a frame with dt > 0 arrived after a failure over the bounce limit and left
\* the ball and the bounce count as the failure left them
PhysicsOnlyInPlayWitness ==
  /\ game.status = "fail"
  /\ game.event = "frame"
  /\ game.frame.dt > SubStepThreshold
  /\ ~game.frame.physics
  /\ game.frame.start = ball
  /\ game.bounceCount > level.bounceLimit
  /\ ball.velocity = Vec(0, 0)
  /\ ball.position # level.ballStart


\* ---------------------------------------------------------------------------
\* One run of the game, frame after frame
\* ---------------------------------------------------------------------------
\* the most frames of a run, and the most of them with 0 < dt <= 0.00001 s
MaxRunFrames == 60

MaxShortFrames == 1

\* drags at release: towards the target of level 1, a weak one, and one that
\* launches the ball just above IDLE_THRESHOLD with the arena ahead of it
RunDragSet ==
  { Vec(-8 * ONE, 8 * ONE), Vec(3 * ONE, 3 * ONE), Vec(0, ONE) }

\* frame deltas above the sub-step threshold: 50 ms
RunDtSet == { (5 * SEC) \div 100 }

\* the run is of level 1 or of level 2
RunStoreSet ==
  { DefaultStore,
    [DefaultStore EXCEPT !.highestUnlockedLevel = 1, !.lastPlayedLevel = 1] }

RunInit == GameInit /\ store \in RunStoreSet

\* a frame of a run, with a delta above the sub-step threshold
RunFrame(dt) ==
  /\ game.status = "playing"
  /\ game.frames < MaxRunFrames
  /\ Becomes(FrameCallback(World, dt))

\* a frame of a run, with a delta of 0.00001 s
ShortFrame ==
  /\ game.status = "playing"
  /\ game.short < MaxShortFrames
  /\ Becomes(FrameCallback(World, SubStepThreshold))

RunNext ==
  \/ \E dragVec \in RunDragSet : Release(dragVec)
  \/ \E dt \in RunDtSet : RunFrame(dt)
  \/ ShortFrame

RunSpec == RunInit /\ [][RunNext]_vars

\* C27, as stated: every run ends provided frames keep arriving with dt > 0
\* -- so every frame with dt > 0 that finds the run in play brings it nearer
\* to its end: it moves or slows the ball, runs the idle timer or ends the
\* run.  (A frame that leaves all of them as they were can arrive for ever.)
EveryFrameAdvancesRun ==
  [][(/\ game.status = "playing"
      /\ game'.event = "frame"
      /\ game'.frames = game.frames + 1
      /\ game'.frame.dt > 0)
       => \/ game'.status # "playing"
          \/ ball' # ball
          \/ game'.idleTimer > game.idleTimer]_vars

\* a frame with a delta above the sub-step threshold finds the run in play
\* and leaves it in play
RunGoesOn ==
  /\ game.status = "playing"
  /\ game'.status = "playing"
  /\ game'.event = "frame"
  /\ game'.frames = game.frames + 1
  /\ game'.frame.dt > SubStepThreshold

\* C27, amended: every run ends provided frames with dt > 0.00001 s keep
\* arriving.  Each such frame that does not end the run leaves the ball no
\* faster, and either leaves it at IDLE_THRESHOLD or above and strictly
\* slower, or leaves it below IDLE_THRESHOLD with the idle timer advanced by
\* dt; a run in play has an idle timer of at most 2 s, and no run of the
\* model is cut short by the bound on its frames.
RunEnds ==
  /\ [](game.status = "playing" =>
          /\ game.idleTimer <= 2 * SEC
          /\ game.frames < MaxRunFrames)
  /\ [][RunGoesOn =>
          /\ length(ball'.velocity) <= length(ball.velocity)
          /\ IF length(ball'.velocity) < IDLE_THRESHOLD
               THEN game'.idleTimer = game.idleTimer + game'.frame.dt
               ELSE length(ball'.velocity) < length(ball.velocity)]_vars

\* a run ended by the stall failure: the idle timer passed 2 s
RunEndsWitness ==
  /\ game.status = "fail"
  /\ game.failReason = "stall"
  /\ game.idleTimer > 2 * SEC
  /\ game.short > 0

\* ---------------------------------------------------------------------------
\* The progress store (GameRoot.tsx 480-700) and the shop's use of it
\* ---------------------------------------------------------------------------
\* the most store actions called, and the most state updates queued
MaxStoreCalls == 3

MaxPending == 2

\* skins.ts 14-67: the first three skins
SKINS ==
  << [cost |-> 0, id |-> "classic"],
     [cost |-> 350, id |-> "sunset"],
     [cost |-> 500, id |-> "neon"] >>

DEFAULT_SKIN_ID == "classic"

\* Array.prototype.includes
includes(seq, x) == \E i \in 1..Len(seq) : seq[i] = x

\* Boolean(entry) of a stored skin id: null and '' are falsy
Truthy(x) == x # "" /\ x # "null"

\* Array.from(new Set(seq)): the first occurrence of each entry, in order
RECURSIVE Unique(_, _)
Unique(seq, seen) ==
  IF seq = << >> THEN seen
  ELSE Unique(Tail(seq),
              IF includes(seen, Head(seq)) THEN seen
              ELSE Append(seen, Head(seq)))

\* GameRoot.tsx 496-503
defaultState ==
  [coins |-> 0, highestUnlockedLevel |-> 0, lastPlayedLevel |-> 0,
   ownedSkins |-> << DEFAULT_SKIN_ID >>, selectedSkin |-> DEFAULT_SKIN_ID,
   totalWins |-> 0]

\* x ?? d, with << >> for an absent field and << x >> for a present one
Coalesce(x, d) == IF x = << >> THEN d ELSE x[1]

\* GameRoot.tsx 524-526: the owned skins of the raw state, filtered
FilteredSkins(raw) ==
  IF raw.ownedSkins = << >> THEN << DEFAULT_SKIN_ID >>
  ELSE SelectSeq(raw.ownedSkins[1], Truthy)

\* GameRoot.tsx 527-529: unshift(DEFAULT_SKIN_ID)
WithDefaultSkin(ownedSkins) ==
  IF includes(ownedSkins, DEFAULT_SKIN_ID) THEN ownedSkins
  ELSE << DEFAULT_SKIN_ID >> \o ownedSkins

\* GameRoot.tsx 523-551
sanitizeState(raw) ==
  [coins |-> Max(0, Coalesce(raw.coins, defaultState.coins)),
   highestUnlockedLevel |->
     Max(defaultState.highestUnlockedLevel,
         Coalesce(raw.highestUnlockedLevel, defaultState.highestUnlockedLevel)),
   lastPlayedLevel |->
     Max(0, Coalesce(raw.lastPlayedLevel, defaultState.lastPlayedLevel)),
   ownedSkins |-> Unique(WithDefaultSkin(FilteredSkins(raw)), << >>),
   selectedSkin |->
     IF includes(WithDefaultSkin(FilteredSkins(raw)), raw.selectedSkin)
       THEN raw.selectedSkin
       ELSE DEFAULT_SKIN_ID,
   totalWins |-> Max(0, Coalesce(raw.totalWins, defaultState.totalWins))]

\* stored states (JSON.parse of the stored item): an empty object; negative
\* numbers, a repeated skin, no default skin and a selected skin that is not
\* owned; a falsy entry, the default skin last, a selected skin that is owned
RawSet ==
  { [coins |-> << >>, highestUnlockedLevel |-> << >>,
     lastPlayedLevel |-> << >>, ownedSkins |-> << >>,
     selectedSkin |-> "undefined", totalWins |-> << >>],
    [coins |-> << -5 >>, highestUnlockedLevel |-> << -1 >>,
     lastPlayedLevel |-> << -3 >>,
     ownedSkins |-> << << "sunset", "sunset" >> >>, selectedSkin |-> "neon",
     totalWins |-> << -2 >>],
    [coins |-> << 400 >>, highestUnlockedLevel |-> << 1 >>,
     lastPlayedLevel |-> << 1 >>,
     ownedSkins |-> << << "", "neon", "classic", "neon" >> >>,
     selectedSkin |-> "neon", totalWins |-> << 1 >>] }

\* GameRoot.tsx 598-601: the updater of addCoins (amount is a whole number
\* here)
addCoins(prev, amount) == [prev EXCEPT !.coins = @ + amount]

\* GameRoot.tsx 605-613: the updater of unlockLevel
unlockLevel(prev, levelIndex) ==
  IF levelIndex <= prev.highestUnlockedLevel THEN prev
  ELSE [prev EXCEPT !.highestUnlockedLevel = levelIndex]

\* GameRoot.tsx 639-646: the value the updater of purchaseSkin gives to
\* purchased
purchased(prev, skinId, cost) ==
  \/ includes(prev.ownedSkins, skinId)
  \/ ~(cost > prev.coins)

\* mutant: the purchase is made whatever the coins
purchaseSkinOnCredit(prev, skinId, cost) ==
  IF includes(prev.ownedSkins, skinId) THEN prev
  ELSE [prev EXCEPT !.coins = @ - cost,
                    !.ownedSkins = Append(@, skinId)]

\* GameRoot.tsx 638-652: the updater of purchaseSkin
purchaseSkin(prev, skinId, cost) ==
  IF includes(prev.ownedSkins, skinId) THEN prev
  ELSE IF cost > prev.coins THEN prev
  ELSE [prev EXCEPT !.coins = @ - cost,
                    !.ownedSkins = Append(@, skinId)]

\* GameRoot.tsx 658-666: the updater of selectSkin
selectSkin(prev, skinId) ==
  IF ~includes(prev.ownedSkins, skinId) \/ prev.selectedSkin = skinId
    THEN prev
    ELSE [prev EXCEPT !.selectedSkin = skinId]

\* a state update queued by setState: the action's updater with its
\* arguments (value for setState(value)), and what the action returned to
\* its caller
Update(op, a, b, skinId, value, returned) ==
  [a |-> a, b |-> b, op |-> op, returned |-> returned, skinId |-> skinId,
   value |-> value]

\* the state an update makes of prev
Reduce(prev, u) ==
  CASE u.op = "addCoins" -> addCoins(prev, u.a)
    [] u.op = "unlockLevel" -> unlockLevel(prev, u.a)
    [] u.op = "recordWin" -> recordWin(prev, u.a, u.b)
    [] u.op = "purchaseSkin" -> purchaseSkin(prev, u.skinId, u.a)
    [] u.op = "selectSkin" -> selectSkin(prev, u.skinId)
    [] u.op = "setLastPlayedLevel" -> setLastPlayedLevel(prev, u.a)
    [] u.op = "set" -> u.value

\* arguments of the actions
AmountSet == { -5, 400 }

LevelIndexSet == { -1, 2 }

CostSet == { -50, 350 }

SkinIdSet == { SKINS[i].id : i \in 1..Len(SKINS) }

\* GameRoot.tsx 553-556: the provider mounts on defaultState
StoreInit ==
  /\ store = defaultState
  /\ shop = [calls |-> 0, hydrated |-> FALSE, pending |-> << >>]
  /\ settings = GameSettings
  /\ level = LEVELS[1]
  /\ ball = [position |-> LEVELS[1].ballStart, velocity |-> Vec(0, 0)]
  /\ time = 0
  /\ ticks = 0
  /\ calls = << >>
  /\ sim = SimIdle
  /\ geom = << >>
  /\ loop = Unmounted
  /\ game = Unmounted

\* setState(u) in an action of the store: the update joins the queue of the
\* state hook
Enqueue(u) ==
  /\ shop.calls < MaxStoreCalls
  /\ Len(shop.pending) < MaxPending
  /\ shop' = [shop EXCEPT !.pending = Append(@, u), !.calls = @ + 1]
  /\ UNCHANGED << physVars, geom, loop, game, store >>

\* an action of the store or the shop returns without a state update
Returned ==
  /\ shop.calls < MaxStoreCalls
  /\ shop' = [shop EXCEPT !.calls = @ + 1]
  /\ UNCHANGED << physVars, geom, loop, game, store >>

\* GameRoot.tsx 560-584: the stored state is loaded, once
Hydrate(raw) ==
  /\ ~shop.hydrated
  /\ Len(shop.pending) < MaxPending
  /\ shop' = [shop EXCEPT
                !.pending = Append(@, Update("set", 0, 0, "",
                                             sanitizeState(raw), "void")),
                !.hydrated = TRUE]
  /\ UNCHANGED << physVars, geom, loop, game, store >>

\* GameRoot.tsx 594-602
AddCoins(amount) ==
  IF amount <= 0 THEN Returned
  ELSE Enqueue(Update("addCoins", amount, 0, "", defaultState, "void"))

\* GameRoot.tsx 604-614
UnlockLevel(levelIndex) ==
  Enqueue(Update("unlockLevel", levelIndex, 0, "", defaultState, "void"))

\* GameRoot.tsx 616-634
RecordWin(rewardCoins, nextLevelIndex) ==
  Enqueue(Update("recordWin", rewardCoins, nextLevelIndex, "", defaultState,
                 "void"))

\* GameRoot.tsx 636-655: let purchased = false; setState(updater); return
\* purchased.  React calls the updater when it processes the queue, in the
\* next render; with nothing queued on the hook it may call it at once
\* (eager), and only then has purchased the updater's value at the return.
PurchaseReturn(eager, skinId, cost) ==
  IF eager /\ purchased(store, skinId, cost) THEN "true" ELSE "false"

PurchaseSkin(skinId, cost, eager) ==
  /\ eager => shop.pending = << >>
  /\ Enqueue(Update("purchaseSkin", cost, 0, skinId, defaultState,
                    PurchaseReturn(eager, skinId, cost)))

\* GameRoot.tsx 657-667
SelectSkin(skinId) ==
  Enqueue(Update("selectSkin", 0, 0, skinId, defaultState, "void"))

\* GameRoot.tsx 669-674
SetLastPlayedLevel(levelIndex) ==
  Enqueue(Update("setLastPlayedLevel", levelIndex, 0, "", defaultState,
                 "void"))

\* GameRoot.tsx 676-679: setState(defaultState)
ResetProgress ==
  Enqueue(Update("set", 0, 0, "", defaultState, "void"))

\* ShopScreen.tsx 25-51: a press on a skin card, with the ownedSkins and
\* selectedSkin of the state it was rendered with
handleSkinPress(skin, eager) ==
  /\ eager => shop.pending = << >>
  /\ IF includes(store.ownedSkins, skin.id)
       THEN IF skin.id # store.selectedSkin
              THEN SelectSkin(skin.id)
              ELSE Returned
       ELSE IF PurchaseReturn(eager, skin.id, skin.cost) = "false"
              THEN PurchaseSkin(skin.id, skin.cost, eager)
              ELSE /\ shop.calls < MaxStoreCalls
                   /\ Len(shop.pending) + 2 <= MaxPending
                   /\ shop' =
                        [shop EXCEPT
                           !.pending =
                             << Update("purchaseSkin", skin.cost, 0, skin.id,
                                       defaultState, "true"),
                                Update("selectSkin", 0, 0, skin.id,
                                       defaultState, "void") >>,
                           !.calls = @ + 1]
                   /\ UNCHANGED << physVars, geom, loop, game, store >>

\* React processes the queue in order: the next update makes the new state
\* of the state it finds
ProcessUpdate ==
  /\ shop.pending # << >>
  /\ store' = Reduce(store, Head(shop.pending))
  /\ shop' = [shop EXCEPT !.pending = Tail(@)]
  /\ UNCHANGED << physVars, geom, loop, game >>

StoreNext ==
  \/ \E raw \in RawSet : Hydrate(raw)
  \/ \E amount \in AmountSet : AddCoins(amount)
  \/ \E levelIndex \in LevelIndexSet : UnlockLevel(levelIndex)
  \/ \E rewardCoins \in AmountSet, nextLevelIndex \in LevelIndexSet :
       RecordWin(rewardCoins, nextLevelIndex)
  \/ \E skinId \in SkinIdSet, cost \in CostSet, eager \in BOOLEAN :
       PurchaseSkin(skinId, cost, eager)
  \/ \E skinId \in SkinIdSet : SelectSkin(skinId)
  \/ \E levelIndex \in LevelIndexSet : SetLastPlayedLevel(levelIndex)
  \/ ResetProgress
  \/ \E i \in 1..Len(SKINS), eager \in BOOLEAN : handleSkinPress(SKINS[i], eager)
  \/ ProcessUpdate

StoreSpec == StoreInit /\ [][StoreNext]_vars

\* C29: the progress-store invariant.  From the default state or a sanitized
\* loaded state, after any sequence of addCoins, recordWin, unlockLevel,
\* purchaseSkin, selectSkin, setLastPlayedLevel and resetProgress: coins,
\* totalWins and lastPlayedLevel are at least 0, the default skin is owned,
\* ownedSkins has no duplicates and the selected skin is owned.
StoreInvariant ==
  /\ store.coins >= 0
  /\ store.totalWins >= 0
  /\ store.lastPlayedLevel >= 0
  /\ includes(store.ownedSkins, DEFAULT_SKIN_ID)
  /\ \A i, j \in 1..Len(store.ownedSkins) :
       i # j => store.ownedSkins[i] # store.ownedSkins[j]
  /\ includes(store.ownedSkins, store.selectedSkin)

\* a loaded state was sanitized, and a skin bought and selected: three skins
\* are owned, coins were spent, and the selected skin is not the default
StoreInvariantWitness ==
  /\ shop.hydrated
  /\ shop.pending = << >>
  /\ Len(store.ownedSkins) = 3
  /\ store.coins = 50
  /\ store.selectedSkin # DEFAULT_SKIN_ID

\* C30: purchaseSkin(skinId, cost).  If the skin is not owned and cost >
\* coins it reports failure and leaves the whole store state unchanged; if
\* the skin is already owned it reports success without charging; otherwise
\* it deducts exactly cost from coins and appends the skin to ownedSkins
\* exactly once.
PurchaseSkinReports ==
  [][(/\ shop.pending # << >>
      /\ shop'.pending = Tail(shop.pending)
      /\ Head(shop.pending).op = "purchaseSkin")
       => IF /\ ~includes(store.ownedSkins, Head(shop.pending).skinId)
             /\ Head(shop.pending).a > store.coins
            THEN Head(shop.pending).returned = "false" /\ store' = store
          ELSE IF includes(store.ownedSkins, Head(shop.pending).skinId)
            THEN Head(shop.pending).returned = "true" /\ store' = store
          ELSE /\ store' = [store EXCEPT
                              !.coins = @ - Head(shop.pending).a,
                              !.ownedSkins =
                                Append(@, Head(shop.pending).skinId)]
               /\ Cardinality({ i \in 1..Len(store'.ownedSkins) :
                                  store'.ownedSkins[i]
                                    = Head(shop.pending).skinId }) = 1]_vars

====
